---- MODULE Spec2Model ----
(***************************************************************************)
(* Apuration of Lotofacil pools ("boloes"): scoring of the tickets of a    *)
(* pool against a draw, persistence of per-contest results and hits, and   *)
(* proportional distribution of the prize to the wallets of the buyers.    *)
(*                                                                         *)
(* The store (Supabase REST) is modelled table by table.  A handler runs   *)
(* as a sequence of steps, one per group of store calls, so that handlers  *)
(* of different requests may interleave and a request may stop half way.   *)
(* Money is kept in integer cents.                                         *)
(***************************************************************************)
EXTENDS Integers, Sequences, FiniteSets, TLC

(***************************************************************************)
(* Bounds of the model.                                                    *)
(***************************************************************************)
MaxPedidos == 3          \* requests started in one behaviour
MaxConcursos == 2        \* contests of a teimosinha pool
MaxPedidosConc == 2      \* requests started when two workers run at once
MaxPedidosFalha == 2     \* requests started when requests may stop half way
MaxPedidosRateio == 1    \* requests started when the shares are examined
MaxPedidosCron == 1      \* admin requests started beside the repeated cron sweep
MaxPedidosSerie == 2     \* requests started on a teimosinha pool
MaxPedidosCiclo == 3     \* requests started over the life of a pool
MaxPedidosEdicao == 3    \* requests started on a pool an admin edits
MaxPedidosRazao == 3     \* requests started when the ledger is examined
MaxPedidosPar == 2       \* requests started on two pools in parallel
MaxPedidosConsulta == 3  \* requests started on a pool that is queried
MaxPedidosApurado == 3   \* requests started on a pool that becomes apurado
MaxPedidosFaixa == 2     \* requests started when contests out of range are asked
MaxPedidosVazio == 2     \* requests started on a pool that may have no ticket
MaxPedidosVarredura == 1 \* cron sweeps started over two pools
MaxPedidosBilhetes == 3    \* requests of a run that edits the tickets of a series
MaxTrocas == 2           \* exchanges made in the order of a ticket or a draw
MaxInicio == 4           \* largest concurso_numero of a pool whose range is asked

(***************************************************************************)
(* Values of the model.                                                    *)
(***************************************************************************)
NULO == 0                \* a NULL integer column (concurso_fim)
ConcursoInicial == 1     \* concurso_numero of the pools of the model
TamanhoJogo == 15        \* numbers of a ticket and of a draw
MaiorDezena == 25        \* the numbers go from 1 to MaiorDezena

Usuarios == {"ana", "bia", "caio"}

\* concurso_numero values a request may carry: the range and one beyond it
ConcursosPedido == ConcursoInicial..(ConcursoInicial + MaxConcursos)

Max(a, b) == IF a > b THEN a ELSE b

RECURSIVE SomaSeq(_)
SomaSeq(s) == IF s = <<>> THEN 0 ELSE Head(s) + SomaSeq(Tail(s))

\* the tickets and the draws: 15 distinct numbers of 1..25
DezJ1 == 1..15
DezJ2 == 5..19
DezA == 1..15                          \* j1: 15 hits, j2: 11 hits
DezB == (1..2) \cup (5..15) \cup (16..17)   \* j1: 13 hits, j2: 13 hits
DezC == (1..8) \cup (19..25)           \* j1:  8 hits, j2:  5 hits
DezJ3 == 11..25                        \* a ticket with 5 hits on DezA

\* the official draw of a contest (what the lottery API publishes)
Sorteio(c) == IF c % 3 = 1 THEN DezA ELSE IF c % 3 = 2 THEN DezC ELSE DezB

\* payout tables the lottery API may carry, in cents
TabelaCompleta == (11 :> 700) @@ (12 :> 1400) @@ (13 :> 3500)
                    @@ (14 :> 150000) @@ (15 :> 180002)
TabelaVazia == [a \in {} |-> 0]
\* the API left a tier out (buscar_resultado_completo keeps what it is given)
TabelaSem11 == (12 :> 1400) @@ (13 :> 3500) @@ (14 :> 150000)
                 @@ (15 :> 180002)
TabelaSo11 == (11 :> 700)

(***************************************************************************)
(* BolaoService: pure functions over a pool row.                           *)
(***************************************************************************)
is_teimosinha(bolao) ==
    bolao.concurso_fim # NULO /\ bolao.concurso_fim > bolao.concurso_numero

total_concursos(bolao) ==
    IF bolao.concurso_fim # NULO /\ bolao.concurso_fim > bolao.concurso_numero
    THEN bolao.concurso_fim - bolao.concurso_numero + 1
    ELSE 1

\* range(concurso_numero, concurso_fim): a list that stops before the end
concursos_list_sem_fim(bolao) ==
    IF bolao.concurso_fim # NULO /\ bolao.concurso_fim > bolao.concurso_numero
    THEN [i \in 1..(bolao.concurso_fim - bolao.concurso_numero)
              |-> bolao.concurso_numero + i - 1]
    ELSE <<bolao.concurso_numero>>

concursos_list(bolao) ==
    IF bolao.concurso_fim # NULO /\ bolao.concurso_fim > bolao.concurso_numero
    THEN [i \in 1..(bolao.concurso_fim - bolao.concurso_numero + 1)
              |-> bolao.concurso_numero + i - 1]
    ELSE <<bolao.concurso_numero>>

(***************************************************************************)
(* ResultadoService: pure parts.                                           *)
(***************************************************************************)
calcular_acertos(jogo_dezenas, resultado_dezenas) ==
    Cardinality(jogo_dezenas \cap resultado_dezenas)

\* set(lista) of Python: the numbers of a list, order and repeats dropped
Conjunto(lista) == {lista[i] : i \in DOMAIN lista}

\* a score that compares the two lists position by position
AcertosPorPosicao(jogo_dezenas, resultado_dezenas) ==
    Cardinality({i \in DOMAIN jogo_dezenas \cap DOMAIN resultado_dezenas :
                    jogo_dezenas[i] = resultado_dezenas[i]})

\* calcular_acertos on its arguments as the callers pass them, two lists:
\* len(set(jogo_dezenas) & set(resultado_dezenas))
CalcularAcertosListas(jogo_dezenas, resultado_dezenas) ==
    calcular_acertos(Conjunto(jogo_dezenas), Conjunto(resultado_dezenas))

\* hits of every ticket of a snapshot of jogos_bolao, in the snapshot's order
JogosResultado(jogos, dezenas) ==
    [i \in 1..Len(jogos) |->
        [jogo_id |-> jogos[i].id,
         acertos |-> calcular_acertos(jogos[i].dezenas, dezenas)]]

\* premio_total: the payout of the tier of every ticket with 11 or more hits
PremioDoJogo(premiacoes, acertos) ==
    IF acertos >= 11 /\ acertos \in DOMAIN premiacoes
    THEN premiacoes[acertos] ELSE 0

\* a premio_total that pays every tier once, however many tickets are in it
PremioTotalPorFaixa(premiacoes, jogos_resultado) ==
    SomaSeq([k \in 1..5 |->
                IF \E i \in 1..Len(jogos_resultado) :
                      jogos_resultado[i].acertos = k + 10
                THEN PremioDoJogo(premiacoes, k + 10) ELSE 0])

PremioTotal(premiacoes, jogos_resultado) ==
    SomaSeq([i \in 1..Len(jogos_resultado) |->
                PremioDoJogo(premiacoes, jogos_resultado[i].acertos)])

\* Python round(n / d) to an integer: nearest, ties to the even neighbour
\* (exact for the whole-real amounts of the model)
RoundHalfEven(n, d) ==
    LET q == n \div d
        r == n % d
    IN  IF 2 * r < d THEN q
        ELSE IF 2 * r > d THEN q + 1
        ELSE IF q % 2 = 0 THEN q ELSE q + 1

\* a share count that drops the fraction of valor_pago / valor_cota
QtdCotasTrunc(valor_pago, valor_cota) ==
    IF valor_cota > 0
    THEN Max(1, valor_pago \div valor_cota)
    ELSE 1

\* qtd of one purchase: max(1, round(valor_pago / valor_cota)), 1 without price
QtdCotas(valor_pago, valor_cota) ==
    IF valor_cota > 0
    THEN Max(1, RoundHalfEven(valor_pago, valor_cota))
    ELSE 1

\* cotas_por_usuario: a dict in order of first purchase, as a sequence
RECURSIVE CotasPorUsuario(_, _, _)
CotasPorUsuario(cotas, valor_cota, acc) ==
    IF cotas = <<>> THEN acc
    ELSE LET c == Head(cotas)
             q == QtdCotas(c.valor_pago, valor_cota)
             idx == {i \in 1..Len(acc) : acc[i].usuario_id = c.usuario_id}
             nxt == IF idx = {}
                    THEN Append(acc, [usuario_id |-> c.usuario_id, qtd |-> q])
                    ELSE [i \in 1..Len(acc) |->
                             IF i \in idx
                             THEN [acc[i] EXCEPT !.qtd = @ + q]
                             ELSE acc[i]]
         IN  CotasPorUsuario(Tail(cotas), valor_cota, nxt)

TotalCotas(fila) == SomaSeq([i \in 1..Len(fila) |-> fila[i].qtd])

\* round((qtd / total) * premio, 2) in cents: the nearest cent; on an exact
\* half cent the binary float decides, so both neighbours are outcomes
PremioUsuario(qtd, total, premio) ==
    LET n == qtd * premio
        q == n \div total
        r == n % total
    IN  IF 2 * r < total THEN {q}
        ELSE IF 2 * r > total THEN {q + 1}
        ELSE {q, q + 1}


(***************************************************************************)
(* State.  One variable per table of the store; proc holds the locals of   *)
(* the handler each worker is running.                                     *)
(***************************************************************************)
VARIABLES
    boloes,               \* table boloes: id -> row
    jogos_bolao,          \* table jogos_bolao, rows in insertion order
    cotas,                \* table cotas
    resultados_concurso,  \* table resultados_concurso
    acertos_concurso,     \* table acertos_concurso
    premiacoes_bolao,     \* table premiacoes_bolao
    carteira,             \* table carteira: usuario_id -> saldo_disponivel
    transacoes,           \* table transacoes (append only)
    unico,                \* the store rejects a second resultados_concurso row
    proc,                 \* worker -> locals of its handler
    chamadas,             \* responses returned so far, in order
    pedidos,              \* requests started
    limite,               \* requests a behaviour may start
    ciclico,              \* the cron trigger fires without bound, unrecorded
    creditos,             \* carteira updates made by the credits, in order
    pagamentos_pix,       \* table pagamentos_pix
    placar,               \* a ticket and a draw as lists, and their score
    consulta              \* what BolaoService answered about the pool rows

tabelas == <<boloes, jogos_bolao, cotas, resultados_concurso, acertos_concurso,
             premiacoes_bolao, carteira, transacoes, creditos>>
vars == <<boloes, jogos_bolao, cotas, resultados_concurso, acertos_concurso,
          premiacoes_bolao, carteira, transacoes, unico, proc, chamadas,
          pedidos, limite, ciclico, creditos, pagamentos_pix, placar,
          consulta>>
\* what no step of an apuration, an edit or a purchase writes
fixas == <<unico, limite, ciclico, pagamentos_pix, placar, consulta>>

SEM_ACERTOS == -1        \* jogos_bolao.acertos DEFAULT NULL

\* BolaoService has not been asked about the pool row
SemConsulta ==
    [is_teimosinha |-> [feita |-> FALSE, valor |-> FALSE],
     total_concursos |-> [feita |-> FALSE, valor |-> 0],
     concursos_list |-> [feita |-> FALSE, valor |-> <<>>]]

Ocioso ==
    [pc |-> "ocioso", op |-> "nenhuma", bolao |-> "nenhum", concurso |-> 0,
     dezenas |-> {}, temPrem |-> FALSE, prem |-> TabelaVazia,
     teimosinha |-> FALSE, total |-> 0, pend |-> <<>>, novos |-> <<>>,
     erros |-> <<>>, premioGeral |-> 0, lista |-> <<>>, jogos |-> <<>>,
     jogosRes |-> <<>>, apurados |-> 0, via |-> "nenhuma", premio |-> 0,
     fila |-> <<>>, totalCotas |-> 0, saldoAnt |-> 0, premioUsr |-> 0,
     premioRet |-> 0, pagos |-> <<>>]

\* rows of a table that pass a filter
JogosDe(b) == SelectSeq(jogos_bolao, LAMBDA j : j.bolao_id = b)
CotasDe(b) == SelectSeq(cotas, LAMBDA c : c.bolao_id = b)
ResultadosDe(b, c) ==
    SelectSeq(resultados_concurso,
              LAMBDA r : r.bolao_id = b /\ r.concurso_numero = c)
AcertosDe(b, c, j) ==
    SelectSeq(acertos_concurso,
              LAMBDA a : a.bolao_id = b /\ a.concurso_numero = c /\ a.jogo_id = j)
PremiacoesDe(b, c) ==
    SelectSeq(premiacoes_bolao,
              LAMBDA r : r.bolao_id = b /\ r.concurso_numero = c)
TransacoesDe(u, b, c) ==
    SelectSeq(transacoes,
              LAMBDA t : t.usuario_id = u /\ t.referencia_id = b /\ t.concurso = c)
CreditosDe(u, b, c) ==
    SelectSeq(creditos,
              LAMBDA t : t.usuario_id = u /\ t.bolao_id = b /\ t.concurso = c)

\* insert into resultados_concurso: a store with the unique key answers a
\* duplicate with an error, which execute() turns into a response the
\* callers never look at
InsertResultado(b, c, dezenas) ==
    IF unico /\ ResultadosDe(b, c) # <<>>
    THEN resultados_concurso
    ELSE Append(resultados_concurso,
                [bolao_id |-> b, concurso_numero |-> c, dezenas |-> dezenas])

\* one acertos_concurso row per ticket of the scored snapshot
InsertAcertos(b, c, jogos_resultado) ==
    acertos_concurso \o
        [i \in 1..Len(jogos_resultado) |->
            [jogo_id |-> jogos_resultado[i].jogo_id, bolao_id |-> b,
             concurso_numero |-> c, acertos |-> jogos_resultado[i].acertos]]

InsertPremiacao(b, c, premio_total, distribuido) ==
    Append(premiacoes_bolao,
           [bolao_id |-> b, concurso_numero |-> c,
            premio_total |-> premio_total, distribuido |-> distribuido])

\* what the lottery API may answer for a contest: nothing, or the draw with
\* a payout table (which may still be empty)
Indisponivel == [ok |-> FALSE, dezenas |-> {}, premiacoes |-> TabelaVazia]
RespostasAPI(c) ==
    {Indisponivel} \cup
    {[ok |-> TRUE, dezenas |-> Sorteio(c), premiacoes |-> t] :
        t \in {TabelaCompleta, TabelaVazia}}

\* the buyers credited so far for a contest of a pool
Creditados(b, c) == {u \in Usuarios : CreditosDe(u, b, c) # <<>>}

\* one response: the handler, its pool and contest, the outcome, the
\* contests it apurated and skipped, the prize it reports and the step it
\* ended at; with it, what the store held for the contest at that moment
Entrada(op, b, c, ret, novos, erros, premio, em) ==
    [op |-> op, bolao |-> b, concurso |-> c, ret |-> ret, novos |-> novos,
     erros |-> erros, premio |-> premio, em |-> em,
     creditados |-> Creditados(b, c),
     registrado |-> PremiacoesDe(b, c) # <<>>]

\* the responses are kept, except those of an unbounded cron trigger
Registra(e) ==
    IF ciclico /\ e.op = "cron" THEN chamadas ELSE Append(chamadas, e)

\* the response of a handler: the worker is free again
Responde(p, ret) ==
    /\ proc' = [proc EXCEPT ![p] = Ocioso]
    /\ chamadas' = Registra(Entrada(proc[p].op, proc[p].bolao, proc[p].concurso,
                                    ret, proc[p].novos, proc[p].erros,
                                    proc[p].premioRet, "fim"))

\* a request rejected by the checks at the head of its handler.  Outcomes:
\* "conflito" is the 400 answer "ja foi apurado", "ja_apurado" the 200 answer
\* of apurar/pendentes on an apurado pool (novos_apurados 0), "invalido" the
\* other 400 answers, "indisponivel" the 404 of a draw the lottery API does
\* not have, "erro_interno" an unhandled exception (500)
Rejeita(p, op, b, c, ret) ==
    /\ chamadas' = Registra(Entrada(op, b, c, ret, <<>>, <<>>, 0, "fim"))
    /\ UNCHANGED proc

Livre(p) == proc[p].pc = "ocioso" /\ pedidos < limite

\* an unbounded cron trigger is not counted among the requests
LivreCron(p) == proc[p].pc = "ocioso" /\ (ciclico \/ pedidos < limite)

(***************************************************************************)
(* Entry of the handlers: the checks made before the first write.          *)
(***************************************************************************)
DezenasManuais == {DezA, DezC}      \* draws an admin may type in
OrdemBoloes == <<"b1", "b2">>       \* order in which the store lists pools

\* POST /{bolao_id}/apurar.  ResultadoInput declares only `dezenas`, so the
\* teimosinha branch stops at its first read of resultado.concurso_numero
\* with an AttributeError (a 500 response) before any write.
ApurarBolaoManual(p, b, dez) ==
    /\ Livre(p)
    /\ pedidos' = pedidos + 1
    /\ LET bolao == boloes[b]
       IN  IF bolao.status = "apurado"
           THEN Rejeita(p, "manual", b, 0, "conflito")
           ELSE IF JogosDe(b) = <<>>
           THEN Rejeita(p, "manual", b, 0, "invalido")
           ELSE IF is_teimosinha(bolao)
           THEN Rejeita(p, "manual", b, 0, "erro_interno")
           ELSE /\ proc' = [proc EXCEPT ![p] =
                      [Ocioso EXCEPT !.pc = "ab_jogos", !.op = "manual",
                                     !.bolao = b, !.dezenas = dez, !.via = "ab"]]
                /\ UNCHANGED chamadas
    /\ UNCHANGED <<tabelas, fixas>>

\* POST /{bolao_id}/apurar with a body that also carries concurso_numero = c.
\* ResultadoInput does not declare the field, so the value is dropped when the
\* body is parsed and the handler runs as above; the response is recorded
\* with the contest that was asked for.
ApurarBolaoManualComConcurso(p, b, dez, c) ==
    /\ Livre(p)
    /\ pedidos' = pedidos + 1
    /\ LET bolao == boloes[b]
       IN  IF bolao.status = "apurado"
           THEN Rejeita(p, "manual", b, c, "conflito")
           ELSE IF JogosDe(b) = <<>>
           THEN Rejeita(p, "manual", b, c, "invalido")
           ELSE IF is_teimosinha(bolao)
           THEN Rejeita(p, "manual", b, c, "erro_interno")
           ELSE /\ proc' = [proc EXCEPT ![p] =
                      [Ocioso EXCEPT !.pc = "ab_jogos", !.op = "manual",
                                     !.bolao = b, !.dezenas = dez, !.via = "ab"]]
                /\ UNCHANGED chamadas
    /\ UNCHANGED <<tabelas, fixas>>

\* POST /{bolao_id}/apurar/automatico
ApurarBolaoAutomatico(p, b) ==
    /\ Livre(p)
    /\ pedidos' = pedidos + 1
    /\ LET bolao == boloes[b]
       IN  IF bolao.status = "apurado"
           THEN Rejeita(p, "automatico", b, 0, "conflito")
           ELSE IF JogosDe(b) = <<>>
           THEN Rejeita(p, "automatico", b, 0, "invalido")
           ELSE /\ proc' = [proc EXCEPT ![p] =
                      IF is_teimosinha(bolao)
                      THEN [Ocioso EXCEPT !.pc = "tc_inicio", !.op = "automatico",
                                          !.bolao = b]
                      ELSE [Ocioso EXCEPT !.pc = "auto_busca", !.op = "automatico",
                                          !.bolao = b, !.via = "ab",
                                          !.concurso = bolao.concurso_numero]]
                /\ UNCHANGED chamadas
    /\ UNCHANGED <<tabelas, fixas>>

\* buscar_resultado_api for the single contest of a pool (automatico)
BuscarResultadoApi(p) ==
    /\ proc[p].pc = "auto_busca"
    /\ \E r \in RespostasAPI(proc[p].concurso) :
          IF ~r.ok
          THEN Responde(p, "indisponivel")
          ELSE /\ proc' = [proc EXCEPT ![p] =
                     [@ EXCEPT !.pc = "ab_jogos", !.dezenas = r.dezenas,
                               !.concurso = 0]]
               /\ UNCHANGED chamadas
    /\ UNCHANGED <<tabelas, fixas, pedidos>>

\* POST /{bolao_id}/apurar/concurso/{concurso_numero}
ApurarConcursoIndividual(p, b, c) ==
    /\ Livre(p)
    /\ pedidos' = pedidos + 1
    /\ LET bolao == boloes[b]
           concursos == concursos_list(bolao)
           naFaixa == IF is_teimosinha(bolao)
                      THEN \E i \in 1..Len(concursos) : concursos[i] = c
                      ELSE c = bolao.concurso_numero
       IN  IF bolao.status = "apurado"
           THEN Rejeita(p, "individual", b, c, "conflito")
           ELSE IF JogosDe(b) = <<>>
           THEN Rejeita(p, "individual", b, c, "invalido")
           ELSE IF ~naFaixa
           THEN Rejeita(p, "individual", b, c, "invalido")
           ELSE IF ResultadosDe(b, c) # <<>>
           THEN Rejeita(p, "individual", b, c, "conflito")
           ELSE /\ proc' = [proc EXCEPT ![p] =
                      [Ocioso EXCEPT !.pc = "ind_busca", !.op = "individual",
                                     !.bolao = b, !.concurso = c, !.via = "ac",
                                     !.teimosinha = is_teimosinha(bolao),
                                     !.total = total_concursos(bolao)]]
                /\ UNCHANGED chamadas
    /\ UNCHANGED <<tabelas, fixas>>

\* buscar_resultado_completo for the contest of an individual apuration
BuscarResultadoCompleto(p) ==
    /\ proc[p].pc = "ind_busca"
    /\ \E r \in RespostasAPI(proc[p].concurso) :
          IF ~r.ok
          THEN Responde(p, "indisponivel")
          ELSE /\ proc' = [proc EXCEPT ![p] =
                     [@ EXCEPT !.pc = "ac_jogos", !.dezenas = r.dezenas,
                               !.temPrem = TRUE, !.prem = r.premiacoes]]
               /\ UNCHANGED chamadas
    /\ UNCHANGED <<tabelas, fixas, pedidos>>

\* a batch endpoint that does not look at the status of the pool
ApurarPendentesSemStatus(p, b) ==
    /\ Livre(p)
    /\ pedidos' = pedidos + 1
    /\ IF JogosDe(b) = <<>>
       THEN Rejeita(p, "pendentes", b, 0, "invalido")
       ELSE /\ proc' = [proc EXCEPT ![p] =
                  [Ocioso EXCEPT !.pc = "tc_inicio", !.op = "pendentes",
                                 !.bolao = b]]
            /\ UNCHANGED chamadas
    /\ UNCHANGED <<tabelas, fixas>>

\* POST /{bolao_id}/apurar/pendentes
ApurarPendentes(p, b) ==
    /\ Livre(p)
    /\ pedidos' = pedidos + 1
    /\ LET bolao == boloes[b]
       IN  IF bolao.status = "apurado"
           THEN Rejeita(p, "pendentes", b, 0, "ja_apurado")
           ELSE IF JogosDe(b) = <<>>
           THEN Rejeita(p, "pendentes", b, 0, "invalido")
           ELSE /\ proc' = [proc EXCEPT ![p] =
                      [Ocioso EXCEPT !.pc = "tc_inicio", !.op = "pendentes",
                                     !.bolao = b]]
                /\ UNCHANGED chamadas
    /\ UNCHANGED <<tabelas, fixas>>

\* POST /{bolao_id}/jogos: the tickets of the body are inserted unless the
\* pool is apurado; the store gives each a new id
AdicionarJogos(p, b, novos) ==
    /\ Livre(p)
    /\ pedidos' = pedidos + 1
    /\ \A i \in 1..Len(novos), k \in 1..Len(jogos_bolao) :
          novos[i].id # jogos_bolao[k].id
    /\ IF boloes[b].status = "apurado"
       THEN /\ Rejeita(p, "adicionar", b, 0, "invalido")
            /\ UNCHANGED jogos_bolao
       ELSE /\ jogos_bolao' = jogos_bolao \o novos
            /\ Rejeita(p, "adicionar", b, 0, "ok")
    /\ UNCHANGED <<boloes, cotas, resultados_concurso, acertos_concurso,
                   premiacoes_bolao, carteira, transacoes, creditos, fixas>>

\* DELETE /{bolao_id}/jogos/{jogo_id}: refused on an apurado pool only
RemoverJogo(p, b, j) ==
    /\ Livre(p)
    /\ pedidos' = pedidos + 1
    /\ IF boloes[b].status = "apurado"
       THEN /\ Rejeita(p, "remover", b, 0, "invalido")
            /\ UNCHANGED jogos_bolao
       ELSE /\ jogos_bolao' =
                  SelectSeq(jogos_bolao,
                            LAMBDA r : ~(r.id = j /\ r.bolao_id = b))
            /\ Rejeita(p, "remover", b, 0, "ok")
    /\ UNCHANGED <<boloes, cotas, resultados_concurso, acertos_concurso,
                   premiacoes_bolao, carteira, transacoes, creditos, fixas>>

\* POST /cron/apurar-resultados: the pools that are aberto or fechado
BoloesAtivos ==
    SelectSeq(OrdemBoloes,
              LAMBDA b : b \in DOMAIN boloes
                         /\ boloes[b].status \in {"aberto", "fechado"})

CronApurarResultados(p) ==
    /\ LivreCron(p)
    /\ pedidos' = IF ciclico THEN pedidos ELSE pedidos + 1
    /\ IF BoloesAtivos = <<>>
       THEN Rejeita(p, "cron", "nenhum", 0, "ok")
       ELSE /\ proc' = [proc EXCEPT ![p] =
                  [Ocioso EXCEPT !.pc = "cron_laco", !.op = "cron",
                                 !.lista = BoloesAtivos]]
            /\ UNCHANGED chamadas
    /\ UNCHANGED <<tabelas, fixas>>

\* one turn of the loop of the cron sweep: a pool without tickets is skipped
CronProximo(p) ==
    /\ proc[p].pc = "cron_laco"
    /\ IF proc[p].lista = <<>>
       THEN Responde(p, "ok")
       ELSE LET b == Head(proc[p].lista)
            IN  /\ proc' = [proc EXCEPT ![p] =
                      IF JogosDe(b) = <<>>
                      THEN [@ EXCEPT !.lista = Tail(@)]
                      ELSE [@ EXCEPT !.lista = Tail(@), !.pc = "tc_inicio",
                                     !.bolao = b]]
                /\ UNCHANGED chamadas
    /\ UNCHANGED <<tabelas, fixas, pedidos>>

(***************************************************************************)
(* ResultadoService.apurar_todos_concursos (also apurar_pendentes).        *)
(***************************************************************************)
\* the pending contests taken from the last of the range to the first
ConcursosPendentesDoFim(b) ==
    LET pend == SelectSeq(concursos_list(boloes[b]),
                          LAMBDA c : ResultadosDe(b, c) = <<>>)
    IN  [i \in 1..Len(pend) |-> pend[Len(pend) - i + 1]]

\* the contests of the range without a resultados_concurso row
ConcursosPendentes(b) ==
    SelectSeq(concursos_list(boloes[b]), LAMBDA c : ResultadosDe(b, c) = <<>>)

\* the batch returns to its caller: the cron sweep goes on with its next
\* pool, an admin request answers
FimLote(p, rec, ret) ==
    /\ chamadas' = Registra(Entrada(rec.op, rec.bolao, 0, ret, rec.novos,
                                    rec.erros, rec.premioGeral, "fim"))
    /\ proc' = [proc EXCEPT ![p] =
          IF rec.op = "cron"
          THEN [Ocioso EXCEPT !.pc = "cron_laco", !.op = "cron",
                              !.lista = rec.lista]
          ELSE Ocioso]

\* read the pool and the contests already recorded; nothing pending returns
TodosInicio(p) ==
    /\ proc[p].pc = "tc_inicio"
    /\ LET b == proc[p].bolao
           pend == ConcursosPendentes(b)
       IN  IF pend = <<>>
           THEN FimLote(p, proc[p], "ok")
           ELSE /\ proc' = [proc EXCEPT ![p] =
                      [@ EXCEPT !.pc = "tc_busca", !.pend = pend,
                                !.total = total_concursos(boloes[b])]]
                /\ UNCHANGED chamadas
    /\ UNCHANGED <<tabelas, fixas, pedidos>>

\* a batch that gives up at the first contest without a draw
AbortaLote(rec, c, resto) ==
    [rec EXCEPT !.erros = Append(@, c), !.pend = <<>>, !.pc = "tc_fim"]

\* the draw of contest c is not available: an error entry, and on to the
\* next pending contest
PulaConcurso(rec, c, resto) ==
    [rec EXCEPT !.erros = Append(@, c), !.pend = resto,
                !.pc = IF resto = <<>> THEN "tc_fim" ELSE "tc_busca"]

\* the loop over the pending contests: fetch the next one, skip it with an
\* error entry when the API has nothing
TodosBusca(p) ==
    /\ proc[p].pc = "tc_busca"
    /\ LET c == Head(proc[p].pend)
           resto == Tail(proc[p].pend)
       IN  \E r \in RespostasAPI(c) :
              proc' = [proc EXCEPT ![p] =
                 IF ~r.ok
                 THEN PulaConcurso(proc[p], c, resto)
                 ELSE [@ EXCEPT !.pend = resto, !.concurso = c,
                                !.dezenas = r.dezenas, !.temPrem = TRUE,
                                !.prem = r.premiacoes, !.via = "ac",
                                !.pc = "ac_jogos"]]
    /\ UNCHANGED <<tabelas, fixas, pedidos, chamadas>>

\* a completion test that wants the counter beyond the number of contests
MarcaApuradoEstrito(b, total) ==
    IF boloes[b].concursos_apurados > total
    THEN [boloes EXCEPT ![b].status = "apurado"]
    ELSE boloes

\* after the loop: the pool becomes apurado when the counter reached the
\* number of contests of the pool row read at the start
MarcaApurado(b, total) ==
    IF boloes[b].concursos_apurados >= total
    THEN [boloes EXCEPT ![b].status = "apurado"]
    ELSE boloes

TodosFim(p) ==
    /\ proc[p].pc = "tc_fim"
    /\ boloes' = MarcaApurado(proc[p].bolao, proc[p].total)
    /\ FimLote(p, proc[p], "ok")
    /\ UNCHANGED <<jogos_bolao, cotas, resultados_concurso, acertos_concurso,
                   premiacoes_bolao, carteira, transacoes, creditos, fixas, pedidos>>

(***************************************************************************)
(* The return of apurar_concurso / apurar_bolao to its caller.             *)
(***************************************************************************)
Conclui(p, rec) ==
    IF rec.via = "ab"
    THEN /\ proc' = [proc EXCEPT ![p] = Ocioso]
         /\ chamadas' = Registra(Entrada(rec.op, rec.bolao, rec.concurso, "ok",
                                         <<rec.concurso>>, <<>>,
                                         rec.premioRet, "fim"))
    ELSE /\ proc' = [proc EXCEPT ![p] =
               IF rec.op = "individual"
               THEN [rec EXCEPT !.pc = "ind_fim"]
               ELSE [rec EXCEPT !.novos = Append(@, rec.concurso),
                                !.premioGeral = @ + rec.premioRet,
                                !.pc = IF rec.pend = <<>> THEN "tc_fim"
                                       ELSE "tc_busca"]]
         /\ UNCHANGED chamadas

\* apurar_concurso_individual after apurar_concurso: only a teimosinha pool
\* is checked for completion
IndividualFim(p) ==
    /\ proc[p].pc = "ind_fim"
    /\ boloes' = IF proc[p].teimosinha
                 THEN MarcaApurado(proc[p].bolao, proc[p].total)
                 ELSE boloes
    /\ proc' = [proc EXCEPT ![p] = Ocioso]
    /\ chamadas' = Registra(Entrada("individual", proc[p].bolao,
                                    proc[p].concurso, "ok",
                                    <<proc[p].concurso>>, <<>>,
                                    proc[p].premioRet, "fim"))
    /\ UNCHANGED <<jogos_bolao, cotas, resultados_concurso, acertos_concurso,
                   premiacoes_bolao, carteira, transacoes, creditos, fixas, pedidos>>

(***************************************************************************)
(* ResultadoService.apurar_concurso.                                       *)
(***************************************************************************)
ConcursoJogos(p) ==
    /\ proc[p].pc = "ac_jogos"
    /\ proc' = [proc EXCEPT ![p] =
          [@ EXCEPT !.pc = "ac_resultado", !.jogos = JogosDe(proc[p].bolao)]]
    /\ UNCHANGED <<tabelas, fixas, pedidos, chamadas>>

ConcursoResultado(p) ==
    /\ proc[p].pc = "ac_resultado"
    /\ resultados_concurso' =
          InsertResultado(proc[p].bolao, proc[p].concurso, proc[p].dezenas)
    /\ proc' = [proc EXCEPT ![p] = [@ EXCEPT !.pc = "ac_acertos"]]
    /\ UNCHANGED <<boloes, jogos_bolao, cotas, acertos_concurso,
                   premiacoes_bolao, carteira, transacoes, creditos, fixas, pedidos, chamadas>>

\* the loop that scores every ticket of the snapshot and inserts its row
ConcursoAcertos(p) ==
    /\ proc[p].pc = "ac_acertos"
    /\ LET res == JogosResultado(proc[p].jogos, proc[p].dezenas)
       IN  /\ acertos_concurso' =
                 InsertAcertos(proc[p].bolao, proc[p].concurso, res)
           /\ proc' = [proc EXCEPT ![p] =
                 [@ EXCEPT !.pc = "ac_le_apurados", !.jogosRes = res]]
    /\ UNCHANGED <<boloes, jogos_bolao, cotas, resultados_concurso,
                   premiacoes_bolao, carteira, transacoes, creditos, fixas, pedidos, chamadas>>

ConcursoLeApurados(p) ==
    /\ proc[p].pc = "ac_le_apurados"
    /\ proc' = [proc EXCEPT ![p] =
          [@ EXCEPT !.pc = "ac_grava_apurados",
                    !.apurados = boloes[proc[p].bolao].concursos_apurados]]
    /\ UNCHANGED <<tabelas, fixas, pedidos, chamadas>>

\* concursos_apurados := the value read + 1; then the payout table decides
\* whether the distribution runs (an empty table is falsy) 
ConcursoGravaApurados(p) ==
    /\ proc[p].pc = "ac_grava_apurados"
    /\ boloes' = [boloes EXCEPT ![proc[p].bolao].concursos_apurados =
                                    proc[p].apurados + 1]
    /\ \E r \in (IF proc[p].temPrem THEN {Indisponivel}
                 ELSE RespostasAPI(proc[p].concurso)) :
          LET prem == IF proc[p].temPrem THEN proc[p].prem ELSE r.premiacoes
          IN  IF prem # TabelaVazia
              THEN /\ proc' = [proc EXCEPT ![p] =
                         [@ EXCEPT !.pc = "dp_total", !.prem = prem]]
                   /\ UNCHANGED chamadas
              ELSE Conclui(p, [proc[p] EXCEPT !.premioRet = 0])
    /\ UNCHANGED <<jogos_bolao, cotas, resultados_concurso, acertos_concurso,
                   premiacoes_bolao, carteira, transacoes, creditos, fixas, pedidos>>

(***************************************************************************)
(* ResultadoService.calcular_e_distribuir_premio.                          *)
(***************************************************************************)
\* a distribution that records a prize without buyers as distributed
DistribuirTotalSemCotas(p) ==
    /\ proc[p].pc = "dp_total"
    /\ LET b == proc[p].bolao
           c == proc[p].concurso
           premio == PremioTotal(proc[p].prem, proc[p].jogosRes)
           vendidas == CotasDe(b)
           fila == CotasPorUsuario(vendidas, boloes[b].valor_cota, <<>>)
       IN  IF premio <= 0
           THEN /\ premiacoes_bolao' = InsertPremiacao(b, c, 0, TRUE)
                /\ Conclui(p, [proc[p] EXCEPT !.premioRet = 0])
           ELSE IF vendidas = <<>>
           THEN /\ premiacoes_bolao' = InsertPremiacao(b, c, premio, TRUE)
                /\ Conclui(p, [proc[p] EXCEPT !.premioRet = premio])
           ELSE /\ proc' = [proc EXCEPT ![p] =
                      [@ EXCEPT !.pc = "dp_usuario", !.premio = premio,
                                !.fila = fila, !.totalCotas = TotalCotas(fila),
                                !.pagos = <<>>]]
                /\ UNCHANGED <<premiacoes_bolao, chamadas>>
    /\ UNCHANGED <<boloes, jogos_bolao, cotas, resultados_concurso,
                   acertos_concurso, carteira, transacoes, creditos, fixas, pedidos>>

\* premio_total; a zero prize is recorded at once, a prize without buyers is
\* recorded as not distributed, otherwise the buyers are queued
DistribuirTotal(p) ==
    /\ proc[p].pc = "dp_total"
    /\ LET b == proc[p].bolao
           c == proc[p].concurso
           premio == PremioTotal(proc[p].prem, proc[p].jogosRes)
           vendidas == CotasDe(b)
           fila == CotasPorUsuario(vendidas, boloes[b].valor_cota, <<>>)
       IN  IF premio <= 0
           THEN /\ premiacoes_bolao' = InsertPremiacao(b, c, 0, TRUE)
                /\ Conclui(p, [proc[p] EXCEPT !.premioRet = 0])
           ELSE IF vendidas = <<>>
           THEN /\ premiacoes_bolao' = InsertPremiacao(b, c, premio, FALSE)
                /\ Conclui(p, [proc[p] EXCEPT !.premioRet = premio])
           ELSE /\ proc' = [proc EXCEPT ![p] =
                      [@ EXCEPT !.pc = "dp_usuario", !.premio = premio,
                                !.fila = fila, !.totalCotas = TotalCotas(fila),
                                !.pagos = <<>>]]
                /\ UNCHANGED <<premiacoes_bolao, chamadas>>
    /\ UNCHANGED <<boloes, jogos_bolao, cotas, resultados_concurso,
                   acertos_concurso, carteira, transacoes, creditos, fixas, pedidos>>

\* the locals after the buyer at the head of the queue is done
ProximoUsuario(rec) ==
    [rec EXCEPT !.fila = Tail(@), !.saldoAnt = 0, !.premioUsr = 0,
                !.pc = IF Tail(rec.fila) = <<>> THEN "dp_registro"
                       ELSE "dp_usuario"]

\* a loop that a missing wallet ends: the buyers after it get nothing
DistribuirUsuarioInterrompe(p) ==
    /\ proc[p].pc = "dp_usuario"
    /\ LET u == Head(proc[p].fila)
       IN  \E v \in PremioUsuario(u.qtd, proc[p].totalCotas, proc[p].premio) :
              proc' = [proc EXCEPT ![p] =
                 IF u.usuario_id \notin DOMAIN carteira
                 THEN [@ EXCEPT !.fila = <<>>, !.pc = "dp_registro"]
                 ELSE IF v <= 0
                 THEN ProximoUsuario(proc[p])
                 ELSE [@ EXCEPT !.pc = "dp_atualiza", !.premioUsr = v,
                                !.saldoAnt = carteira[u.usuario_id]]]
    /\ UNCHANGED <<tabelas, fixas, pedidos, chamadas>>

\* the share of the next buyer and the read of the wallet; a share of zero
\* and a missing wallet are skipped
DistribuirUsuario(p) ==
    /\ proc[p].pc = "dp_usuario"
    /\ LET u == Head(proc[p].fila)
       IN  \E v \in PremioUsuario(u.qtd, proc[p].totalCotas, proc[p].premio) :
              proc' = [proc EXCEPT ![p] =
                 IF v <= 0 \/ u.usuario_id \notin DOMAIN carteira
                 THEN ProximoUsuario(proc[p])
                 ELSE [@ EXCEPT !.pc = "dp_atualiza", !.premioUsr = v,
                                !.saldoAnt = carteira[u.usuario_id]]]
    /\ UNCHANGED <<tabelas, fixas, pedidos, chamadas>>

\* update carteira set saldo_disponivel = saldo_anterior + premio_usuario;
\* pagos keeps what this run has credited so far
DistribuirAtualiza(p) ==
    /\ proc[p].pc = "dp_atualiza"
    /\ LET u == Head(proc[p].fila).usuario_id
       IN  /\ carteira' = IF u \in DOMAIN carteira
                          THEN [carteira EXCEPT ![u] =
                                   proc[p].saldoAnt + proc[p].premioUsr]
                          ELSE carteira
           /\ creditos' = Append(creditos,
                 [usuario_id |-> u, bolao_id |-> proc[p].bolao,
                  concurso |-> proc[p].concurso, valor |-> proc[p].premioUsr,
                  saldo |-> proc[p].saldoAnt + proc[p].premioUsr])
    /\ proc' = [proc EXCEPT ![p] =
          [@ EXCEPT !.pc = "dp_transacao",
                    !.pagos = Append(@, [usuario_id |-> Head(proc[p].fila).usuario_id,
                                         valor |-> proc[p].premioUsr])]]
    /\ UNCHANGED <<boloes, jogos_bolao, cotas, resultados_concurso,
                   acertos_concurso, premiacoes_bolao, transacoes, fixas, pedidos, chamadas>>

\* a ledger row whose saldo_anterior is read again after the update
DistribuirTransacaoRelida(p) ==
    /\ proc[p].pc = "dp_transacao"
    /\ transacoes' = Append(transacoes,
          [usuario_id |-> Head(proc[p].fila).usuario_id, tipo |-> "credito",
           valor |-> proc[p].premioUsr, origem |-> "premio_bolao",
           referencia_id |-> proc[p].bolao, concurso |-> proc[p].concurso,
           saldo_anterior |-> carteira[Head(proc[p].fila).usuario_id],
           saldo_posterior |-> carteira[Head(proc[p].fila).usuario_id]
                                  + proc[p].premioUsr])
    /\ proc' = [proc EXCEPT ![p] = ProximoUsuario(proc[p])]
    /\ UNCHANGED <<boloes, jogos_bolao, cotas, resultados_concurso,
                   acertos_concurso, premiacoes_bolao, carteira, creditos,
                   fixas, pedidos, chamadas>>

\* insert the ledger row of the credit (its descricao names the contest)
DistribuirTransacao(p) ==
    /\ proc[p].pc = "dp_transacao"
    /\ transacoes' = Append(transacoes,
          [usuario_id |-> Head(proc[p].fila).usuario_id, tipo |-> "credito",
           valor |-> proc[p].premioUsr, origem |-> "premio_bolao",
           referencia_id |-> proc[p].bolao, concurso |-> proc[p].concurso,
           saldo_anterior |-> proc[p].saldoAnt,
           saldo_posterior |-> proc[p].saldoAnt + proc[p].premioUsr])
    /\ proc' = [proc EXCEPT ![p] = ProximoUsuario(proc[p])]
    /\ UNCHANGED <<boloes, jogos_bolao, cotas, resultados_concurso,
                   acertos_concurso, premiacoes_bolao, carteira, creditos,
                   fixas, pedidos, chamadas>>

\* after the loop: the prize row, distribuido = true
DistribuirRegistro(p) ==
    /\ proc[p].pc = "dp_registro"
    /\ premiacoes_bolao' = InsertPremiacao(proc[p].bolao, proc[p].concurso,
                                           proc[p].premio, TRUE)
    /\ Conclui(p, [proc[p] EXCEPT !.premioRet = proc[p].premio])
    /\ UNCHANGED <<boloes, jogos_bolao, cotas, resultados_concurso,
                   acertos_concurso, carteira, transacoes, creditos, fixas, pedidos>>

(***************************************************************************)
(* ResultadoService.apurar_bolao (single contest).                         *)
(***************************************************************************)
\* read the tickets, score them and store the hits on the ticket rows; a
\* pool without tickets returns an empty summary
BolaoJogos(p) ==
    /\ proc[p].pc = "ab_jogos"
    /\ LET b == proc[p].bolao
           jogos == JogosDe(b)
           res == JogosResultado(jogos, proc[p].dezenas)
       IN  IF jogos = <<>>
           THEN /\ proc' = [proc EXCEPT ![p] = Ocioso]
                /\ chamadas' = Registra(Entrada(proc[p].op, b, 0, "ok", <<>>,
                                                <<>>, 0, "fim"))
                /\ UNCHANGED jogos_bolao
           ELSE /\ jogos_bolao' =
                      [i \in 1..Len(jogos_bolao) |->
                          IF jogos_bolao[i].bolao_id = b
                          THEN [jogos_bolao[i] EXCEPT !.acertos =
                                   calcular_acertos(jogos_bolao[i].dezenas,
                                                    proc[p].dezenas)]
                          ELSE jogos_bolao[i]]
                /\ proc' = [proc EXCEPT ![p] =
                      [@ EXCEPT !.pc = "ab_status", !.jogos = jogos,
                                !.jogosRes = res]]
                /\ UNCHANGED chamadas
    /\ UNCHANGED <<boloes, cotas, resultados_concurso, acertos_concurso,
                   premiacoes_bolao, carteira, transacoes, creditos, fixas, pedidos>>

\* update boloes set status = 'apurado' (resultado_dezenas is not written)
BolaoStatus(p) ==
    /\ proc[p].pc = "ab_status"
    /\ boloes' = [boloes EXCEPT ![proc[p].bolao].status = "apurado"]
    /\ proc' = [proc EXCEPT ![p] = [@ EXCEPT !.pc = "ab_resultado"]]
    /\ UNCHANGED <<jogos_bolao, cotas, resultados_concurso, acertos_concurso,
                   premiacoes_bolao, carteira, transacoes, creditos, fixas, pedidos, chamadas>>

\* read concurso_numero and insert the resultados_concurso row
BolaoResultado(p) ==
    /\ proc[p].pc = "ab_resultado"
    /\ LET c == boloes[proc[p].bolao].concurso_numero
       IN  /\ resultados_concurso' =
                 InsertResultado(proc[p].bolao, c, proc[p].dezenas)
           /\ proc' = [proc EXCEPT ![p] =
                 [@ EXCEPT !.pc = "ab_acertos", !.concurso = c]]
    /\ UNCHANGED <<boloes, jogos_bolao, cotas, acertos_concurso,
                   premiacoes_bolao, carteira, transacoes, creditos, fixas, pedidos, chamadas>>

BolaoAcertos(p) ==
    /\ proc[p].pc = "ab_acertos"
    /\ acertos_concurso' =
          InsertAcertos(proc[p].bolao, proc[p].concurso, proc[p].jogosRes)
    /\ proc' = [proc EXCEPT ![p] = [@ EXCEPT !.pc = "ab_premiacoes"]]
    /\ UNCHANGED <<boloes, jogos_bolao, cotas, resultados_concurso,
                   premiacoes_bolao, carteira, transacoes, creditos, fixas, pedidos, chamadas>>

\* the payout table is fetched; without one nothing is distributed and no
\* prize row is written
BolaoPremiacoes(p) ==
    /\ proc[p].pc = "ab_premiacoes"
    /\ \E r \in RespostasAPI(proc[p].concurso) :
          IF r.ok /\ r.premiacoes # TabelaVazia
          THEN /\ proc' = [proc EXCEPT ![p] =
                     [@ EXCEPT !.pc = "dp_total", !.temPrem = TRUE,
                               !.prem = r.premiacoes]]
               /\ UNCHANGED chamadas
          ELSE Conclui(p, [proc[p] EXCEPT !.premioRet = 0])
    /\ UNCHANGED <<tabelas, fixas, pedidos>>

\* a request that stops where it is (the worker dies, the request times out)
Falha(p) ==
    /\ proc[p].pc # "ocioso"
    /\ proc' = [proc EXCEPT ![p] = Ocioso]
    /\ chamadas' = Registra(Entrada(proc[p].op, proc[p].bolao,
                                    proc[p].concurso, "falha", proc[p].novos,
                                    proc[p].erros, 0, proc[p].pc))
    /\ UNCHANGED <<tabelas, fixas, pedidos>>

\* the steps of apurar_pendentes as the cron sweep calls it
NoLoteDoCron(rec) == rec.op = "cron" /\ rec.pc \notin {"ocioso", "cron_laco"}

\* a sweep whose handler does not catch: the exception ends the request
ExcecaoAbortaVarredura(p) ==
    /\ NoLoteDoCron(proc[p])
    /\ chamadas' = Registra(Entrada("cron", proc[p].bolao, proc[p].concurso,
                                    "erro", proc[p].novos, proc[p].erros, 0,
                                    proc[p].pc))
    /\ proc' = [proc EXCEPT ![p] = Ocioso]
    /\ UNCHANGED <<tabelas, fixas, pedidos>>

\* a statement of apurar_pendentes raises inside the sweep (a KeyError or a
\* TypeError on what the store answered, say): the except clause records
\* {"bolao_id", "erro"} and the loop goes on with the pools that are left
ExcecaoNoLote(p) ==
    /\ NoLoteDoCron(proc[p])
    /\ chamadas' = Registra(Entrada("cron", proc[p].bolao, proc[p].concurso,
                                    "erro", proc[p].novos, proc[p].erros, 0,
                                    proc[p].pc))
    /\ proc' = [proc EXCEPT ![p] =
          [Ocioso EXCEPT !.pc = "cron_laco", !.op = "cron",
                         !.lista = proc[p].lista]]
    /\ UNCHANGED <<tabelas, fixas, pedidos>>

(***************************************************************************)
(* BolaoService asked about a pool row: each of the three functions is     *)
(* applied to the row and its answer kept.                                 *)
(***************************************************************************)
ConsultaIsTeimosinha(b) ==
    /\ ~consulta.is_teimosinha.feita
    /\ consulta' = [consulta EXCEPT !.is_teimosinha =
                       [feita |-> TRUE, valor |-> is_teimosinha(boloes[b])]]
    /\ UNCHANGED <<tabelas, unico, limite, ciclico, pagamentos_pix, placar,
                   proc, chamadas, pedidos>>

ConsultaTotalConcursos(b) ==
    /\ ~consulta.total_concursos.feita
    /\ consulta' = [consulta EXCEPT
                       !.total_concursos =
                       [feita |-> TRUE, valor |-> total_concursos(boloes[b])]]
    /\ UNCHANGED <<tabelas, unico, limite, ciclico, pagamentos_pix, placar,
                   proc, chamadas, pedidos>>

ConsultaConcursosList(b) ==
    /\ ~consulta.concursos_list.feita
    /\ consulta' = [consulta EXCEPT
                       !.concursos_list =
                       [feita |-> TRUE, valor |-> concursos_list(boloes[b])]]
    /\ UNCHANGED <<tabelas, unico, limite, ciclico, pagamentos_pix, placar,
                   proc, chamadas, pedidos>>

(***************************************************************************)
(* The scoring function on lists: it is applied to a ticket and a draw,    *)
(* and either list may be put in another order.                            *)
(***************************************************************************)
Troca(lista, i) ==
    [k \in DOMAIN lista |->
        IF k = i THEN lista[i + 1] ELSE IF k = i + 1 THEN lista[i] ELSE lista[k]]

\* ResultadoService.calcular_acertos(jogo["dezenas"], resultado_dezenas)
CalcularAcertos ==
    /\ placar.jogo_dezenas # <<>>
    /\ placar' = [placar EXCEPT
          !.acertos = CalcularAcertosListas(placar.jogo_dezenas,
                                            placar.resultado_dezenas),
          !.trocasNoCalculo = placar.trocas]
    /\ UNCHANGED <<tabelas, unico, limite, ciclico, pagamentos_pix, proc,
                   chamadas, pedidos, consulta>>

\* the same ticket with two neighbouring numbers exchanged
TrocarOrdemJogo(i) ==
    /\ placar.jogo_dezenas # <<>>
    /\ placar.trocas < MaxTrocas
    /\ placar' = [placar EXCEPT !.jogo_dezenas = Troca(@, i),
                                !.trocas = @ + 1]
    /\ UNCHANGED <<tabelas, unico, limite, ciclico, pagamentos_pix, proc,
                   chamadas, pedidos, consulta>>

\* the same draw with two neighbouring numbers exchanged
TrocarOrdemResultado(i) ==
    /\ placar.resultado_dezenas # <<>>
    /\ placar.trocas < MaxTrocas
    /\ placar' = [placar EXCEPT !.resultado_dezenas = Troca(@, i),
                                !.trocas = @ + 1]
    /\ UNCHANGED <<tabelas, unico, limite, ciclico, pagamentos_pix, proc,
                   chamadas, pedidos, consulta>>

(***************************************************************************)
(* The life cycle of a pool outside the apuration: the admin update and    *)
(* close, the cron close and the close that follows a purchase.            *)
(***************************************************************************)
SEM_STATUS == "nenhum"   \* a status the request leaves out (None)

\* a schema that also declares the concurso_fim the handler reads
CamposUpdateComFim ==
    {"nome", "descricao", "concurso_numero", "concurso_fim", "total_cotas",
     "valor_cota", "status", "data_fechamento"}

\* the fields BolaoUpdateAdmin declares
CamposUpdateAdmin ==
    {"nome", "descricao", "concurso_numero", "total_cotas", "valor_cota",
     "status", "data_fechamento"}

\* a request body of PUT /{bolao_id}; NULO and SEM_STATUS stand for None
Dados(st, numero, fim, valor) ==
    [status |-> st, concurso_numero |-> numero, concurso_fim |-> fim,
     valor_cota |-> valor]

DadosUpdate ==
    { Dados(st, NULO, NULO, NULO) : st \in {"aberto", "fechado", "cancelado"} }
    \cup { Dados(SEM_STATUS, NULO, NULO, 2000),
           Dados(SEM_STATUS, ConcursoInicial + 1, NULO, NULO),
           Dados(SEM_STATUS, NULO, ConcursoInicial + 1, NULO),
           Dados("aberto", NULO, NULO, 2000) }

\* one response of an admin or purchase operation on a pool, with the row
\* before and after it
EntradaAdmin(op, b, ret, depois) ==
    [op |-> op, bolao |-> b, concurso |-> 0, ret |-> ret, novos |-> <<>>,
     erros |-> <<>>, premio |-> 0, em |-> "fim", creditados |-> {},
     registrado |-> FALSE, antes |-> boloes[b], depois |-> depois]

\* what validation keeps of a body: a field the schema does not declare is
\* dropped
Validado(campos, dados) ==
    [dados EXCEPT !.concurso_fim =
        IF "concurso_fim" \in campos THEN @ ELSE NULO]

\* the row after update(update_dict): the fields that are not None
Atualizado(bolao, d) ==
    [bolao EXCEPT
        !.concurso_numero = IF d.concurso_numero # NULO
                            THEN d.concurso_numero ELSE @,
        !.concurso_fim = IF d.concurso_fim # NULO THEN d.concurso_fim ELSE @,
        !.valor_cota = IF d.valor_cota # NULO THEN d.valor_cota ELSE @,
        !.status = IF d.status # SEM_STATUS THEN d.status ELSE @]

\* PUT /{bolao_id}.  On an apurado pool only a change of status passes the
\* first check.  update_dict is then built field by field, and the read of
\* bolao_data.concurso_fim raises AttributeError when the schema does not
\* declare the field (a 500 response before any write).
AtualizarBolao(p, b, dados) ==
    /\ Livre(p)
    /\ pedidos' = pedidos + 1
    /\ LET atual == boloes[b]
           d == Validado(CamposUpdateAdmin, dados)
           outros == d.concurso_numero # NULO \/ d.concurso_fim # NULO
                     \/ d.valor_cota # NULO
           ret == IF atual.status = "apurado" /\ d.status = SEM_STATUS
                  THEN "invalido"
                  ELSE IF atual.status = "apurado" /\ outros
                  THEN "invalido"
                  ELSE IF "concurso_fim" \notin CamposUpdateAdmin
                  THEN "erro_interno"
                  ELSE IF d.status = SEM_STATUS /\ ~outros
                  THEN "invalido"
                  ELSE "ok"
           depois == IF ret = "ok" THEN Atualizado(atual, d) ELSE atual
       IN  /\ boloes' = [boloes EXCEPT ![b] = depois]
           /\ chamadas' = Registra(EntradaAdmin("atualizar", b, ret, depois))
    /\ UNCHANGED <<jogos_bolao, cotas, resultados_concurso, acertos_concurso,
                   premiacoes_bolao, carteira, transacoes, creditos, fixas,
                   proc>>

\* PATCH /{bolao_id}/close: refused for a pool that is fechado or apurado
FecharBolao(p, b) ==
    /\ Livre(p)
    /\ pedidos' = pedidos + 1
    /\ LET atual == boloes[b]
           ret == IF atual.status \in {"fechado", "apurado"}
                  THEN "invalido" ELSE "ok"
           depois == IF ret = "ok" THEN [atual EXCEPT !.status = "fechado"]
                     ELSE atual
       IN  /\ boloes' = [boloes EXCEPT ![b] = depois]
           /\ chamadas' = Registra(EntradaAdmin("fechar", b, ret, depois))
    /\ UNCHANGED <<jogos_bolao, cotas, resultados_concurso, acertos_concurso,
                   premiacoes_bolao, carteira, transacoes, creditos, fixas,
                   proc>>

\* POST /cron/fechar-boloes: every pool that is aberto becomes fechado
CronFecharBoloes(p) ==
    /\ Livre(p)
    /\ pedidos' = pedidos + 1
    /\ boloes' = [b \in DOMAIN boloes |->
                     IF boloes[b].status = "aberto"
                     THEN [boloes[b] EXCEPT !.status = "fechado"]
                     ELSE boloes[b]]
    /\ chamadas' = Registra(Entrada("cron_fechar", "nenhum", 0, "ok", <<>>,
                                    <<>>, 0, "fim"))
    /\ UNCHANGED <<jogos_bolao, cotas, resultados_concurso, acertos_concurso,
                   premiacoes_bolao, carteira, transacoes, creditos, fixas,
                   proc>>

\* the stored procedure comprar_cota (one share): in one transaction the
\* purchase row, the debit of the wallet with its ledger row, and one share
\* less to sell; refused for a pool that is not aberto, without shares left
\* or without balance
CompraAceita(b, u) ==
    /\ boloes[b].status = "aberto"
    /\ boloes[b].cotas_disponiveis >= 1
    /\ u \in DOMAIN carteira
    /\ carteira[u] >= boloes[b].valor_cota

\* POST /cotas/comprar: the procedure, then the pool is closed when the
\* row read back is aberto with no share left
ComprarCota(p, b, u) ==
    /\ Livre(p)
    /\ pedidos' = pedidos + 1
    /\ IF ~CompraAceita(b, u)
       THEN /\ chamadas' = Registra(EntradaAdmin("comprar", b, "invalido",
                                                 boloes[b]))
            /\ UNCHANGED <<boloes, cotas, carteira, transacoes>>
       ELSE LET valor == boloes[b].valor_cota
                vendido == [boloes[b] EXCEPT !.cotas_disponiveis = @ - 1]
                depois == IF vendido.cotas_disponiveis <= 0
                             /\ vendido.status = "aberto"
                          THEN [vendido EXCEPT !.status = "fechado"]
                          ELSE vendido
            IN  /\ cotas' = Append(cotas, [bolao_id |-> b, usuario_id |-> u,
                                           valor_pago |-> valor])
                /\ carteira' = [carteira EXCEPT ![u] = @ - valor]
                /\ transacoes' = Append(transacoes,
                      [usuario_id |-> u, tipo |-> "debito", valor |-> valor,
                       origem |-> "compra_cota", referencia_id |-> b,
                       concurso |-> 0, saldo_anterior |-> carteira[u],
                       saldo_posterior |-> carteira[u] - valor])
                /\ boloes' = [boloes EXCEPT ![b] = depois]
                /\ chamadas' = Registra(EntradaAdmin("comprar", b, "ok", depois))
    /\ UNCHANGED <<jogos_bolao, resultados_concurso, acertos_concurso,
                   premiacoes_bolao, creditos, fixas, proc>>

(***************************************************************************)
(* PagamentoService.simular_confirmacao_pagamento: the credit of a Pix     *)
(* payment.  Any exception ends it with False.                             *)
(***************************************************************************)
PagamentosDe(ext) ==
    SelectSeq(pagamentos_pix, LAMBDA g : g.external_id = ext)

\* look the payment up and mark it pago (its status is not looked at)
SimularConfirmacaoPagamento(p, ext) ==
    /\ Livre(p)
    /\ pedidos' = pedidos + 1
    /\ IF PagamentosDe(ext) = <<>>
       THEN /\ Rejeita(p, "pagamento", ext, 0, "falso")
            /\ UNCHANGED pagamentos_pix
       ELSE LET pagamento == Head(PagamentosDe(ext))
            IN  /\ pagamentos_pix' =
                      [i \in 1..Len(pagamentos_pix) |->
                          IF pagamentos_pix[i].external_id = ext
                          THEN [pagamentos_pix[i] EXCEPT !.status = "pago"]
                          ELSE pagamentos_pix[i]]
                /\ proc' = [proc EXCEPT ![p] =
                      [Ocioso EXCEPT !.pc = "pg_carteira", !.op = "pagamento",
                                     !.bolao = ext,
                                     !.premioUsr = pagamento.valor,
                                     !.fila = <<[usuario_id |-> pagamento.usuario_id,
                                                 qtd |-> 0]>>]]
                /\ UNCHANGED chamadas
    /\ UNCHANGED <<tabelas, unico, limite, ciclico, placar, consulta>>

\* read the wallet of the payer; without one the credit is given up
PagamentoCarteira(p) ==
    /\ proc[p].pc = "pg_carteira"
    /\ LET u == Head(proc[p].fila).usuario_id
       IN  IF u \notin DOMAIN carteira
           THEN Responde(p, "falso")
           ELSE /\ proc' = [proc EXCEPT ![p] =
                      [@ EXCEPT !.pc = "pg_atualiza", !.saldoAnt = carteira[u]]]
                /\ UNCHANGED chamadas
    /\ UNCHANGED <<tabelas, fixas, pedidos>>

\* update carteira set saldo_disponivel = saldo_anterior + valor
PagamentoAtualiza(p) ==
    /\ proc[p].pc = "pg_atualiza"
    /\ LET u == Head(proc[p].fila).usuario_id
       IN  /\ carteira' = [carteira EXCEPT ![u] =
                              proc[p].saldoAnt + proc[p].premioUsr]
           /\ creditos' = Append(creditos,
                 [usuario_id |-> u, bolao_id |-> proc[p].bolao,
                  concurso |-> 0, valor |-> proc[p].premioUsr,
                  saldo |-> proc[p].saldoAnt + proc[p].premioUsr])
    /\ proc' = [proc EXCEPT ![p] = [@ EXCEPT !.pc = "pg_transacao"]]
    /\ UNCHANGED <<boloes, jogos_bolao, cotas, resultados_concurso,
                   acertos_concurso, premiacoes_bolao, transacoes, fixas,
                   pedidos, chamadas>>

\* insert the ledger row of the deposit
PagamentoTransacao(p) ==
    /\ proc[p].pc = "pg_transacao"
    /\ transacoes' = Append(transacoes,
          [usuario_id |-> Head(proc[p].fila).usuario_id, tipo |-> "credito",
           valor |-> proc[p].premioUsr, origem |-> "pix",
           referencia_id |-> proc[p].bolao, concurso |-> 0,
           saldo_anterior |-> proc[p].saldoAnt,
           saldo_posterior |-> proc[p].saldoAnt + proc[p].premioUsr])
    /\ Responde(p, "verdadeiro")
    /\ UNCHANGED <<boloes, jogos_bolao, cotas, resultados_concurso,
                   acertos_concurso, premiacoes_bolao, carteira, creditos,
                   fixas, pedidos>>

(***************************************************************************)
(* GET /{bolao_id}/resultado: the read-only result query.                  *)
(***************************************************************************)
\* a series pool answers from resultados_concurso, a single-contest pool
\* from the resultado_dezenas of its row; 404 when there is nothing
ver_resultado(b) ==
    IF is_teimosinha(boloes[b])
    THEN IF SelectSeq(resultados_concurso, LAMBDA r : r.bolao_id = b) = <<>>
         THEN [ret |-> "nao_apurado", dezenas |-> {}]
         ELSE [ret |-> "ok", dezenas |-> {}]
    ELSE IF boloes[b].resultado_dezenas = {}
         THEN [ret |-> "nao_apurado", dezenas |-> {}]
         ELSE [ret |-> "ok", dezenas |-> boloes[b].resultado_dezenas]

VerResultado(p, b) ==
    /\ Livre(p)
    /\ pedidos' = pedidos + 1
    /\ chamadas' = Registra(
          [op |-> "ver", bolao |-> b, concurso |-> 0,
           ret |-> ver_resultado(b).ret, novos |-> <<>>, erros |-> <<>>,
           premio |-> 0, em |-> "fim", creditados |-> {},
           registrado |-> FALSE, dezenas |-> ver_resultado(b).dezenas])
    /\ UNCHANGED <<tabelas, fixas, proc>>

(***************************************************************************)
(* Initial states and specifications.                                      *)
(***************************************************************************)
CotasAVenda == 1         \* shares a pool of the model still has to sell

Bolao(fim, status, valor) ==
    [status |-> status, concurso_numero |-> ConcursoInicial,
     concurso_fim |-> fim, concursos_apurados |-> 0, valor_cota |-> valor,
     resultado_dezenas |-> {}, cotas_disponiveis |-> CotasAVenda]

Jogo(id, b, dezenas) ==
    [id |-> id, bolao_id |-> b, dezenas |-> dezenas, acertos |-> SEM_ACERTOS]

Cota(b, u, valor) == [bolao_id |-> b, usuario_id |-> u, valor_pago |-> valor]

ConcursoFim == ConcursoInicial + MaxConcursos - 1

\* no ticket is being scored apart from the apurations
SemPlacar ==
    [jogo_dezenas |-> <<>>, resultado_dezenas |-> <<>>,
     acertos |-> SEM_ACERTOS, trocas |-> 0, trocasNoCalculo |-> 0]

\* the Pix payments created and not yet confirmed
PagamentosCriados ==
    <<[external_id |-> "SIM-1", usuario_id |-> "ana", valor |-> 3000,
       status |-> "pendente"],
      [external_id |-> "SIM-2", usuario_id |-> "bia", valor |-> 1500,
       status |-> "pendente"]>>

Vazio ==
    /\ resultados_concurso = <<>>
    /\ acertos_concurso = <<>>
    /\ premiacoes_bolao = <<>>
    /\ transacoes = <<>>
    /\ creditos = <<>>
    /\ chamadas = <<>>
    /\ pedidos = 0
    /\ pagamentos_pix = PagamentosCriados
    /\ placar = SemPlacar
    /\ consulta = SemConsulta

\* one worker, one pool (single contest or teimosinha), with or without buyers
Init ==
    /\ Vazio
    /\ \E fim \in {NULO, ConcursoFim}, st \in {"aberto", "fechado"} :
          boloes = [b \in {"b1"} |-> Bolao(fim, st, 1000)]
    /\ jogos_bolao = <<Jogo("j1", "b1", DezJ1), Jogo("j2", "b1", DezJ2)>>
    /\ cotas \in {<<>>, <<Cota("b1", "ana", 2000), Cota("b1", "bia", 1000)>>}
    /\ carteira = [u \in Usuarios |-> IF u = "ana" THEN 500 ELSE 0]
    /\ unico \in BOOLEAN
    /\ proc = [p \in {"w1"} |-> Ocioso]
    /\ limite = MaxPedidos
    /\ ciclico = FALSE

Trabalhadores == DOMAIN proc

Next ==
    \/ \E p \in Trabalhadores, b \in DOMAIN boloes, dez \in DezenasManuais :
          ApurarBolaoManual(p, b, dez)
    \/ \E p \in Trabalhadores, b \in DOMAIN boloes : ApurarBolaoAutomatico(p, b)
    \/ \E p \in Trabalhadores, b \in DOMAIN boloes, c \in ConcursosPedido :
          ApurarConcursoIndividual(p, b, c)
    \/ \E p \in Trabalhadores, b \in DOMAIN boloes : ApurarPendentes(p, b)
    \/ \E p \in Trabalhadores : CronApurarResultados(p)
    \/ \E p \in Trabalhadores : CronProximo(p)
    \/ \E p \in Trabalhadores : BuscarResultadoApi(p)
    \/ \E p \in Trabalhadores : BuscarResultadoCompleto(p)
    \/ \E p \in Trabalhadores : TodosInicio(p)
    \/ \E p \in Trabalhadores : TodosBusca(p)
    \/ \E p \in Trabalhadores : TodosFim(p)
    \/ \E p \in Trabalhadores : IndividualFim(p)
    \/ \E p \in Trabalhadores : ConcursoJogos(p)
    \/ \E p \in Trabalhadores : ConcursoResultado(p)
    \/ \E p \in Trabalhadores : ConcursoAcertos(p)
    \/ \E p \in Trabalhadores : ConcursoLeApurados(p)
    \/ \E p \in Trabalhadores : ConcursoGravaApurados(p)
    \/ \E p \in Trabalhadores : DistribuirTotal(p)
    \/ \E p \in Trabalhadores : DistribuirUsuario(p)
    \/ \E p \in Trabalhadores : DistribuirAtualiza(p)
    \/ \E p \in Trabalhadores : DistribuirTransacao(p)
    \/ \E p \in Trabalhadores : DistribuirRegistro(p)
    \/ \E p \in Trabalhadores : BolaoJogos(p)
    \/ \E p \in Trabalhadores : BolaoStatus(p)
    \/ \E p \in Trabalhadores : BolaoResultado(p)
    \/ \E p \in Trabalhadores : BolaoAcertos(p)
    \/ \E p \in Trabalhadores : BolaoPremiacoes(p)

Spec == Init /\ [][Next]_vars

\* the same requests, any of which may stop at any step
NextFalha ==
    \/ Next
    \/ \E p \in Trabalhadores : Falha(p)

\* one worker, one open pool with buyers
InitFalha ==
    /\ Vazio
    /\ \E fim \in {NULO, ConcursoFim} :
          boloes = [b \in {"b1"} |-> Bolao(fim, "aberto", 1000)]
    /\ jogos_bolao = <<Jogo("j1", "b1", DezJ1), Jogo("j2", "b1", DezJ2)>>
    /\ cotas = <<Cota("b1", "ana", 2000), Cota("b1", "bia", 1000)>>
    /\ carteira = [u \in Usuarios |-> IF u = "ana" THEN 500 ELSE 0]
    /\ unico \in BOOLEAN
    /\ proc = [p \in {"w1"} |-> Ocioso]
    /\ limite = MaxPedidosFalha
    /\ ciclico = FALSE

SpecFalha == InitFalha /\ [][NextFalha]_vars

\* one worker and one teimosinha pool, open or closed, through every
\* entrypoint of an admin and the cron sweep
InitSerie ==
    /\ Vazio
    /\ \E st \in {"aberto", "fechado"} :
          boloes = [b \in {"b1"} |-> Bolao(ConcursoFim, st, 1000)]
    /\ jogos_bolao = <<Jogo("j1", "b1", DezJ1), Jogo("j2", "b1", DezJ2)>>
    /\ cotas = <<Cota("b1", "ana", 2000), Cota("b1", "bia", 1000)>>
    /\ carteira = [u \in Usuarios |-> IF u = "ana" THEN 500 ELSE 0]
    /\ unico \in BOOLEAN
    /\ proc = [p \in {"w1"} |-> Ocioso]
    /\ limite = MaxPedidosSerie
    /\ ciclico = FALSE

NextSerie ==
    \/ \E p \in Trabalhadores, b \in DOMAIN boloes, dez \in DezenasManuais :
          ApurarBolaoManual(p, b, dez)
    \/ \E p \in Trabalhadores, b \in DOMAIN boloes : ApurarBolaoAutomatico(p, b)
    \/ \E p \in Trabalhadores, b \in DOMAIN boloes, c \in ConcursosPedido :
          ApurarConcursoIndividual(p, b, c)
    \/ \E p \in Trabalhadores, b \in DOMAIN boloes : ApurarPendentes(p, b)
    \/ \E p \in Trabalhadores : CronApurarResultados(p)
    \/ \E p \in Trabalhadores : CronProximo(p)
    \/ \E p \in Trabalhadores : BuscarResultadoCompleto(p)
    \/ \E p \in Trabalhadores : TodosInicio(p)
    \/ \E p \in Trabalhadores : TodosBusca(p)
    \/ \E p \in Trabalhadores : TodosFim(p)
    \/ \E p \in Trabalhadores : IndividualFim(p)
    \/ \E p \in Trabalhadores : ConcursoJogos(p)
    \/ \E p \in Trabalhadores : ConcursoResultado(p)
    \/ \E p \in Trabalhadores : ConcursoAcertos(p)
    \/ \E p \in Trabalhadores : ConcursoLeApurados(p)
    \/ \E p \in Trabalhadores : ConcursoGravaApurados(p)
    \/ \E p \in Trabalhadores : DistribuirTotal(p)
    \/ \E p \in Trabalhadores : DistribuirUsuario(p)
    \/ \E p \in Trabalhadores : DistribuirAtualiza(p)
    \/ \E p \in Trabalhadores : DistribuirTransacao(p)
    \/ \E p \in Trabalhadores : DistribuirRegistro(p)

SpecSerie == InitSerie /\ [][NextSerie]_vars

\* one worker, one pool, purchases of several sizes: whole and fractional
\* multiples of the price, a payment below the price, two purchases of one
\* buyer
ComprasRateio ==
    { <<Cota("b1", "ana", 2000), Cota("b1", "bia", 1000)>>,
      <<Cota("b1", "ana", 1000), Cota("b1", "bia", 3000)>>,
      <<Cota("b1", "ana", 1500), Cota("b1", "bia", 2500), Cota("b1", "caio", 400)>>,
      <<Cota("b1", "ana", 1000), Cota("b1", "bia", 1000), Cota("b1", "ana", 2000)>> }

InitRateio ==
    /\ Vazio
    /\ \E fim \in {NULO, ConcursoFim} :
          boloes = [b \in {"b1"} |-> Bolao(fim, "aberto", 1000)]
    /\ jogos_bolao = <<Jogo("j1", "b1", DezJ1), Jogo("j2", "b1", DezJ2)>>
    /\ cotas \in ComprasRateio
    /\ carteira = [u \in Usuarios |-> IF u = "ana" THEN 500 ELSE 0]
    /\ unico = FALSE
    /\ proc = [p \in {"w1"} |-> Ocioso]
    /\ limite = MaxPedidosRateio
    /\ ciclico = FALSE

SpecRateio == InitRateio /\ [][Next]_vars

(***************************************************************************)
(* The whole life of one pool: created aberto, fechado or cancelado, then  *)
(* any sequence of admin updates and closes, cron closes, purchases and    *)
(* apurations.                                                             *)
(***************************************************************************)
Compradores1 == {"caio"}     \* the users who try to buy a share

InitCiclo ==
    /\ Vazio
    /\ \E fim \in {NULO, ConcursoFim}, st \in {"aberto", "fechado", "cancelado"} :
          boloes = [b \in {"b1"} |-> Bolao(fim, st, 1000)]
    /\ jogos_bolao = <<Jogo("j1", "b1", DezJ1), Jogo("j2", "b1", DezJ2)>>
    /\ cotas = <<Cota("b1", "ana", 2000), Cota("b1", "bia", 1000)>>
    /\ carteira = [u \in Usuarios |-> IF u = "ana" THEN 500
                                      ELSE IF u = "caio" THEN 1000 ELSE 0]
    /\ unico = FALSE
    /\ proc = [p \in {"w1"} |-> Ocioso]
    /\ limite = MaxPedidosCiclo
    /\ ciclico = FALSE

NextCiclo ==
    \/ Next
    \/ \E p \in Trabalhadores, b \in DOMAIN boloes, d \in DadosUpdate :
          AtualizarBolao(p, b, d)
    \/ \E p \in Trabalhadores, b \in DOMAIN boloes : FecharBolao(p, b)
    \/ \E p \in Trabalhadores : CronFecharBoloes(p)
    \/ \E p \in Trabalhadores, b \in DOMAIN boloes, u \in Compradores1 :
          ComprarCota(p, b, u)

SpecCiclo == InitCiclo /\ [][NextCiclo]_vars

\* one open pool that an admin apurates, edits and closes
InitEdicao ==
    /\ Vazio
    /\ \E fim \in {NULO, ConcursoFim} :
          boloes = [b \in {"b1"} |-> Bolao(fim, "aberto", 1000)]
    /\ jogos_bolao = <<Jogo("j1", "b1", DezJ1), Jogo("j2", "b1", DezJ2)>>
    /\ cotas = <<Cota("b1", "ana", 2000), Cota("b1", "bia", 1000)>>
    /\ carteira = [u \in Usuarios |-> IF u = "ana" THEN 500 ELSE 0]
    /\ unico = FALSE
    /\ proc = [p \in {"w1"} |-> Ocioso]
    /\ limite = MaxPedidosEdicao
    /\ ciclico = FALSE

NextEdicao ==
    \/ \E p \in Trabalhadores, b \in DOMAIN boloes, d \in DadosUpdate :
          AtualizarBolao(p, b, d)
    \/ \E p \in Trabalhadores, b \in DOMAIN boloes : FecharBolao(p, b)
    \/ \E p \in Trabalhadores, b \in DOMAIN boloes : ApurarBolaoAutomatico(p, b)
    \/ \E p \in Trabalhadores, b \in DOMAIN boloes : ApurarPendentes(p, b)
    \/ \E p \in Trabalhadores : BuscarResultadoApi(p)
    \/ \E p \in Trabalhadores : TodosInicio(p)
    \/ \E p \in Trabalhadores : TodosBusca(p)
    \/ \E p \in Trabalhadores : TodosFim(p)
    \/ \E p \in Trabalhadores : ConcursoJogos(p)
    \/ \E p \in Trabalhadores : ConcursoResultado(p)
    \/ \E p \in Trabalhadores : ConcursoAcertos(p)
    \/ \E p \in Trabalhadores : ConcursoLeApurados(p)
    \/ \E p \in Trabalhadores : ConcursoGravaApurados(p)
    \/ \E p \in Trabalhadores : DistribuirTotal(p)
    \/ \E p \in Trabalhadores : DistribuirUsuario(p)
    \/ \E p \in Trabalhadores : DistribuirAtualiza(p)
    \/ \E p \in Trabalhadores : DistribuirTransacao(p)
    \/ \E p \in Trabalhadores : DistribuirRegistro(p)
    \/ \E p \in Trabalhadores : BolaoJogos(p)
    \/ \E p \in Trabalhadores : BolaoStatus(p)
    \/ \E p \in Trabalhadores : BolaoResultado(p)
    \/ \E p \in Trabalhadores : BolaoAcertos(p)
    \/ \E p \in Trabalhadores : BolaoPremiacoes(p)

SpecEdicao == InitEdicao /\ [][NextEdicao]_vars

(***************************************************************************)
(* The wallets and the ledger: one worker, one pool with buyers, and       *)
(* apurations, Pix confirmations and purchases one after the other.        *)
(***************************************************************************)
PagamentoIds == {"SIM-1", "SIM-2"}

InitRazao ==
    /\ Vazio
    /\ \E fim \in {NULO, ConcursoFim} :
          boloes = [b \in {"b1"} |-> Bolao(fim, "aberto", 1000)]
    /\ jogos_bolao = <<Jogo("j1", "b1", DezJ1), Jogo("j2", "b1", DezJ2)>>
    /\ cotas = <<Cota("b1", "ana", 2000), Cota("b1", "bia", 1000)>>
    /\ carteira = [u \in Usuarios |-> IF u = "ana" THEN 500
                                      ELSE IF u = "caio" THEN 1000 ELSE 0]
    /\ unico = FALSE
    /\ proc = [p \in {"w1"} |-> Ocioso]
    /\ limite = MaxPedidosRazao
    /\ ciclico = FALSE

NextRazao ==
    \/ \E p \in Trabalhadores, ext \in PagamentoIds :
          SimularConfirmacaoPagamento(p, ext)
    \/ \E p \in Trabalhadores : PagamentoCarteira(p)
    \/ \E p \in Trabalhadores : PagamentoAtualiza(p)
    \/ \E p \in Trabalhadores : PagamentoTransacao(p)
    \/ \E p \in Trabalhadores, b \in DOMAIN boloes, u \in Compradores1 :
          ComprarCota(p, b, u)
    \/ \E p \in Trabalhadores, b \in DOMAIN boloes : ApurarBolaoAutomatico(p, b)
    \/ \E p \in Trabalhadores, b \in DOMAIN boloes : ApurarPendentes(p, b)
    \/ \E p \in Trabalhadores : BuscarResultadoApi(p)
    \/ \E p \in Trabalhadores : TodosInicio(p)
    \/ \E p \in Trabalhadores : TodosBusca(p)
    \/ \E p \in Trabalhadores : TodosFim(p)
    \/ \E p \in Trabalhadores : ConcursoJogos(p)
    \/ \E p \in Trabalhadores : ConcursoResultado(p)
    \/ \E p \in Trabalhadores : ConcursoAcertos(p)
    \/ \E p \in Trabalhadores : ConcursoLeApurados(p)
    \/ \E p \in Trabalhadores : ConcursoGravaApurados(p)
    \/ \E p \in Trabalhadores : DistribuirTotal(p)
    \/ \E p \in Trabalhadores : DistribuirUsuario(p)
    \/ \E p \in Trabalhadores : DistribuirAtualiza(p)
    \/ \E p \in Trabalhadores : DistribuirTransacao(p)
    \/ \E p \in Trabalhadores : DistribuirRegistro(p)
    \/ \E p \in Trabalhadores : BolaoJogos(p)
    \/ \E p \in Trabalhadores : BolaoStatus(p)
    \/ \E p \in Trabalhadores : BolaoResultado(p)
    \/ \E p \in Trabalhadores : BolaoAcertos(p)
    \/ \E p \in Trabalhadores : BolaoPremiacoes(p)

SpecRazao == InitRazao /\ [][NextRazao]_vars

(***************************************************************************)
(* Two pools apurated in parallel by two processes that share the store:   *)
(* each worker runs the batch on its own pool, and one user holds shares   *)
(* of both pools.                                                          *)
(***************************************************************************)
BolaoDe == [w1 |-> "b1", w2 |-> "b2"]

SaldoInicialPar == [u \in Usuarios |-> IF u = "ana" THEN 500 ELSE 0]

InitPar ==
    /\ Vazio
    /\ boloes = [b \in {"b1", "b2"} |-> Bolao(NULO, "fechado", 1000)]
    /\ jogos_bolao = <<Jogo("j1", "b1", DezJ1), Jogo("j2", "b1", DezJ2),
                       Jogo("j3", "b2", DezJ1)>>
    /\ cotas = <<Cota("b1", "ana", 2000), Cota("b1", "bia", 1000),
                 Cota("b2", "ana", 1000), Cota("b2", "caio", 1000)>>
    /\ carteira = SaldoInicialPar
    /\ unico \in BOOLEAN
    /\ proc = [p \in DOMAIN BolaoDe |-> Ocioso]
    /\ limite = MaxPedidosPar
    /\ ciclico = FALSE

NextPar ==
    \/ \E p \in Trabalhadores : ApurarPendentes(p, BolaoDe[p])
    \/ \E p \in Trabalhadores :
          ApurarConcursoIndividual(p, BolaoDe[p], ConcursoInicial)
    \/ \E p \in Trabalhadores : BuscarResultadoCompleto(p)
    \/ \E p \in Trabalhadores : TodosInicio(p)
    \/ \E p \in Trabalhadores : TodosBusca(p)
    \/ \E p \in Trabalhadores : TodosFim(p)
    \/ \E p \in Trabalhadores : IndividualFim(p)
    \/ \E p \in Trabalhadores : ConcursoJogos(p)
    \/ \E p \in Trabalhadores : ConcursoResultado(p)
    \/ \E p \in Trabalhadores : ConcursoAcertos(p)
    \/ \E p \in Trabalhadores : ConcursoLeApurados(p)
    \/ \E p \in Trabalhadores : ConcursoGravaApurados(p)
    \/ \E p \in Trabalhadores : DistribuirTotal(p)
    \/ \E p \in Trabalhadores : DistribuirUsuario(p)
    \/ \E p \in Trabalhadores : DistribuirAtualiza(p)
    \/ \E p \in Trabalhadores : DistribuirTransacao(p)
    \/ \E p \in Trabalhadores : DistribuirRegistro(p)

SpecPar == InitPar /\ [][NextPar]_vars

\* one single-contest pool, apurated by the single-shot operations and
\* then queried
InitConsulta ==
    /\ Vazio
    /\ \E st \in {"aberto", "fechado"} :
          boloes = [b \in {"b1"} |-> Bolao(NULO, st, 1000)]
    /\ jogos_bolao = <<Jogo("j1", "b1", DezJ1), Jogo("j2", "b1", DezJ2)>>
    /\ cotas \in {<<>>, <<Cota("b1", "ana", 2000), Cota("b1", "bia", 1000)>>}
    /\ carteira = [u \in Usuarios |-> IF u = "ana" THEN 500 ELSE 0]
    /\ unico \in BOOLEAN
    /\ proc = [p \in {"w1"} |-> Ocioso]
    /\ limite = MaxPedidosConsulta
    /\ ciclico = FALSE

NextConsulta ==
    \/ \E p \in Trabalhadores, b \in DOMAIN boloes, dez \in DezenasManuais :
          ApurarBolaoManual(p, b, dez)
    \/ \E p \in Trabalhadores, b \in DOMAIN boloes : ApurarBolaoAutomatico(p, b)
    \/ \E p \in Trabalhadores, b \in DOMAIN boloes : VerResultado(p, b)
    \/ \E p \in Trabalhadores : BuscarResultadoApi(p)
    \/ \E p \in Trabalhadores : DistribuirTotal(p)
    \/ \E p \in Trabalhadores : DistribuirUsuario(p)
    \/ \E p \in Trabalhadores : DistribuirAtualiza(p)
    \/ \E p \in Trabalhadores : DistribuirTransacao(p)
    \/ \E p \in Trabalhadores : DistribuirRegistro(p)
    \/ \E p \in Trabalhadores : BolaoJogos(p)
    \/ \E p \in Trabalhadores : BolaoStatus(p)
    \/ \E p \in Trabalhadores : BolaoResultado(p)
    \/ \E p \in Trabalhadores : BolaoAcertos(p)
    \/ \E p \in Trabalhadores : BolaoPremiacoes(p)

SpecConsulta == InitConsulta /\ [][NextConsulta]_vars

\* one closed pool of one contest with a buyer, apurated and then asked to
\* apurate again
InitApurado ==
    /\ Vazio
    /\ boloes = [b \in {"b1"} |-> Bolao(NULO, "fechado", 1000)]
    /\ jogos_bolao = <<Jogo("j1", "b1", DezJ1), Jogo("j2", "b1", DezJ2)>>
    /\ cotas = <<Cota("b1", "ana", 2000)>>
    /\ carteira = [u \in Usuarios |-> IF u = "ana" THEN 500 ELSE 0]
    /\ unico = FALSE
    /\ proc = [p \in {"w1"} |-> Ocioso]
    /\ limite = MaxPedidosApurado
    /\ ciclico = FALSE

SpecApurado == InitApurado /\ [][Next]_vars

\* one open pool with a buyer; the single-contest requests name any contest,
\* inside the range of the pool or past its end
InitFaixa ==
    /\ Vazio
    /\ \E fim \in {NULO, ConcursoFim} :
          boloes = [b \in {"b1"} |-> Bolao(fim, "aberto", 1000)]
    /\ jogos_bolao = <<Jogo("j1", "b1", DezJ1), Jogo("j2", "b1", DezJ2)>>
    /\ cotas = <<Cota("b1", "ana", 2000)>>
    /\ carteira = [u \in Usuarios |-> IF u = "ana" THEN 500 ELSE 0]
    /\ unico = FALSE
    /\ proc = [p \in {"w1"} |-> Ocioso]
    /\ limite = MaxPedidosFaixa
    /\ ciclico = FALSE

NextFaixa ==
    \/ Next
    \/ \E p \in Trabalhadores, b \in DOMAIN boloes, dez \in DezenasManuais,
          c \in ConcursosPedido : ApurarBolaoManualComConcurso(p, b, dez, c)

SpecFaixa == InitFaixa /\ [][NextFaixa]_vars

(***************************************************************************)
(* A pool with one ticket or none: apurations on one worker while, on the  *)
(* other, an admin may remove the ticket.                                  *)
(***************************************************************************)
InitVazio ==
    /\ Vazio
    /\ \E fim \in {NULO, ConcursoFim} :
          boloes = [b \in {"b1"} |-> Bolao(fim, "aberto", 1000)]
    /\ jogos_bolao \in {<<>>, <<Jogo("j1", "b1", DezJ1)>>}
    /\ cotas = <<Cota("b1", "ana", 2000)>>
    /\ carteira = [u \in Usuarios |-> IF u = "ana" THEN 500 ELSE 0]
    /\ unico = FALSE
    /\ proc = [p \in {"w1", "w2"} |-> Ocioso]
    /\ limite = MaxPedidosVazio
    /\ ciclico = FALSE

NextVazio ==
    \/ Next
    \/ \E p \in Trabalhadores, b \in DOMAIN boloes : RemoverJogo(p, b, "j1")

SpecVazio == InitVazio /\ [][NextVazio]_vars

(***************************************************************************)
(* The cron sweep over two pools, the second with or without tickets; any  *)
(* statement of the batch of a pool may raise.                             *)
(***************************************************************************)
InitVarredura ==
    /\ Vazio
    /\ boloes = [b \in {"b1", "b2"} |->
                    IF b = "b1" THEN Bolao(NULO, "aberto", 1000)
                    ELSE Bolao(NULO, "fechado", 1000)]
    /\ jogos_bolao \in {<<Jogo("j1", "b1", DezJ1)>>,
                        <<Jogo("j1", "b1", DezJ1), Jogo("j3", "b2", DezJ2)>>}
    /\ cotas = <<Cota("b2", "bia", 1000)>>
    /\ carteira = [u \in Usuarios |-> 0]
    /\ unico = FALSE
    /\ proc = [p \in {"w1"} |-> Ocioso]
    /\ limite = MaxPedidosVarredura
    /\ ciclico = FALSE

NextVarredura ==
    \/ \E p \in Trabalhadores : CronApurarResultados(p)
    \/ \E p \in Trabalhadores : CronProximo(p)
    \/ \E p \in Trabalhadores : ExcecaoNoLote(p)
    \/ \E p \in Trabalhadores : TodosInicio(p)
    \/ \E p \in Trabalhadores : TodosBusca(p)
    \/ \E p \in Trabalhadores : TodosFim(p)
    \/ \E p \in Trabalhadores : ConcursoJogos(p)
    \/ \E p \in Trabalhadores : ConcursoResultado(p)
    \/ \E p \in Trabalhadores : ConcursoAcertos(p)
    \/ \E p \in Trabalhadores : ConcursoLeApurados(p)
    \/ \E p \in Trabalhadores : ConcursoGravaApurados(p)
    \/ \E p \in Trabalhadores : DistribuirTotal(p)
    \/ \E p \in Trabalhadores : DistribuirUsuario(p)
    \/ \E p \in Trabalhadores : DistribuirAtualiza(p)
    \/ \E p \in Trabalhadores : DistribuirTransacao(p)
    \/ \E p \in Trabalhadores : DistribuirRegistro(p)

SpecVarredura == InitVarredura /\ [][NextVarredura]_vars

(***************************************************************************)
(* Scoring alone: a ticket and a draw, each a list of 15 distinct numbers  *)
(* of 1..25 as validate_dezenas admits them, sorted or not.                *)
(***************************************************************************)
Janela(k) == [i \in 1..TamanhoJogo |-> k + i - 1]
Impares == [i \in 1..TamanhoJogo |-> IF i <= 13 THEN 2 * i - 1 ELSE 2 * (i - 13)]
Salteada == [i \in 1..TamanhoJogo |-> ((i * 7) % MaiorDezena) + 1]

ListasDeDezenas == {Janela(1), Janela(6), Janela(11), Impares, Salteada}

\* where two neighbouring numbers are exchanged: both ends and the middle
PosicoesDeTroca == {1, 4, 8, 11, TamanhoJogo - 1}

InitAcertos ==
    /\ resultados_concurso = <<>>
    /\ acertos_concurso = <<>>
    /\ premiacoes_bolao = <<>>
    /\ transacoes = <<>>
    /\ creditos = <<>>
    /\ chamadas = <<>>
    /\ pedidos = 0
    /\ pagamentos_pix = <<>>
    /\ boloes = [b \in {"b1"} |-> Bolao(NULO, "aberto", 1000)]
    /\ jogos_bolao = <<>>
    /\ cotas = <<>>
    /\ carteira = [u \in Usuarios |-> 0]
    /\ unico = FALSE
    /\ proc = [p \in {"w1"} |-> Ocioso]
    /\ limite = 0
    /\ ciclico = FALSE
    /\ consulta = SemConsulta
    /\ \E jogo \in ListasDeDezenas, resultado \in ListasDeDezenas :
          placar = [jogo_dezenas |-> jogo, resultado_dezenas |-> resultado,
                    acertos |-> SEM_ACERTOS, trocas |-> 0,
                    trocasNoCalculo |-> 0]

NextAcertos ==
    \/ CalcularAcertos
    \/ \E i \in PosicoesDeTroca : TrocarOrdemJogo(i)
    \/ \E i \in PosicoesDeTroca : TrocarOrdemResultado(i)

SpecAcertos == InitAcertos /\ [][NextAcertos]_vars

(***************************************************************************)
(* The range of a pool alone.  concurso_numero is positive (Field gt=0);   *)
(* concurso_fim is NULL, or any integer the column may hold: below the     *)
(* start, equal to it, or beyond it.  NULO stands for None and for 0: both *)
(* are falsy, and `is not None` tells them apart only where                *)
(* concurso_fim > concurso_numero is false anyway.                         *)
(***************************************************************************)
ConcursosIniciais == 1..MaxInicio
ConcursosFinais == (-1)..(MaxInicio + MaxConcursos)

InitIntervalo ==
    /\ Vazio
    /\ \E ini \in ConcursosIniciais, fim \in ConcursosFinais :
          boloes = [b \in {"b1"} |->
                       [Bolao(fim, "aberto", 1000) EXCEPT !.concurso_numero = ini]]
    /\ jogos_bolao = <<>>
    /\ cotas = <<>>
    /\ carteira = [u \in Usuarios |-> 0]
    /\ unico = FALSE
    /\ proc = [p \in {"w1"} |-> Ocioso]
    /\ limite = 0
    /\ ciclico = FALSE

NextIntervalo ==
    \/ \E b \in DOMAIN boloes : ConsultaIsTeimosinha(b)
    \/ \E b \in DOMAIN boloes : ConsultaTotalConcursos(b)
    \/ \E b \in DOMAIN boloes : ConsultaConcursosList(b)

SpecIntervalo == InitIntervalo /\ [][NextIntervalo]_vars

(***************************************************************************)
(* Two workers on one teimosinha pool: every worker may run the batch      *)
(* (admin "pendentes" or the cron sweep), one of them may also run the     *)
(* per-contest endpoint.                                                   *)
(***************************************************************************)
Administrador == "w2"

InitConc ==
    /\ Vazio
    /\ \E st \in {"aberto", "fechado"} :
          boloes = [b \in {"b1"} |-> Bolao(ConcursoFim, st, 1000)]
    /\ jogos_bolao = <<Jogo("j1", "b1", DezJ1), Jogo("j2", "b1", DezJ2)>>
    /\ cotas = <<Cota("b1", "ana", 2000), Cota("b1", "bia", 1000)>>
    /\ carteira = [u \in Usuarios |-> IF u = "ana" THEN 500 ELSE 0]
    /\ unico \in BOOLEAN
    /\ proc = [p \in {"w1", Administrador} |-> Ocioso]
    /\ limite = MaxPedidosConc
    /\ ciclico = FALSE

NextConc ==
    \/ \E b \in DOMAIN boloes, c \in ConcursosPedido :
          ApurarConcursoIndividual(Administrador, b, c)
    \/ \E p \in Trabalhadores, b \in DOMAIN boloes : ApurarPendentes(p, b)
    \/ \E p \in Trabalhadores : CronApurarResultados(p)
    \/ \E p \in Trabalhadores : CronProximo(p)
    \/ \E p \in Trabalhadores : BuscarResultadoCompleto(p)
    \/ \E p \in Trabalhadores : TodosInicio(p)
    \/ \E p \in Trabalhadores : TodosBusca(p)
    \/ \E p \in Trabalhadores : TodosFim(p)
    \/ \E p \in Trabalhadores : IndividualFim(p)
    \/ \E p \in Trabalhadores : ConcursoJogos(p)
    \/ \E p \in Trabalhadores : ConcursoResultado(p)
    \/ \E p \in Trabalhadores : ConcursoAcertos(p)
    \/ \E p \in Trabalhadores : ConcursoLeApurados(p)
    \/ \E p \in Trabalhadores : ConcursoGravaApurados(p)
    \/ \E p \in Trabalhadores : DistribuirTotal(p)
    \/ \E p \in Trabalhadores : DistribuirUsuario(p)
    \/ \E p \in Trabalhadores : DistribuirAtualiza(p)
    \/ \E p \in Trabalhadores : DistribuirTransacao(p)
    \/ \E p \in Trabalhadores : DistribuirRegistro(p)

SpecConc == InitConc /\ [][NextConc]_vars

(***************************************************************************)
(* The cron sweep triggered again and again, beside a bounded number of    *)
(* per-contest requests of an admin.  Every request that has started goes  *)
(* on, the trigger keeps firing, and a fetch that is attempted again and   *)
(* again eventually finds the draw published.                              *)
(***************************************************************************)
BolaoIds == {"b1"}

InitCron ==
    /\ Vazio
    /\ \E fim \in {NULO, ConcursoFim}, st \in {"aberto", "fechado"} :
          boloes = [b \in BolaoIds |-> Bolao(fim, st, 1000)]
    /\ jogos_bolao = <<Jogo("j1", "b1", DezJ1), Jogo("j2", "b1", DezJ2)>>
    /\ cotas = <<Cota("b1", "ana", 2000), Cota("b1", "bia", 1000)>>
    /\ carteira = [u \in Usuarios |-> IF u = "ana" THEN 500 ELSE 0]
    /\ unico \in BOOLEAN
    /\ proc = [p \in {"w1"} |-> Ocioso]
    /\ limite = MaxPedidosCron
    /\ ciclico = TRUE

\* the steps a started request takes
PassoCron(p) ==
    \/ CronProximo(p)
    \/ BuscarResultadoCompleto(p)
    \/ TodosInicio(p)
    \/ TodosBusca(p)
    \/ TodosFim(p)
    \/ IndividualFim(p)
    \/ ConcursoJogos(p)
    \/ ConcursoResultado(p)
    \/ ConcursoAcertos(p)
    \/ ConcursoLeApurados(p)
    \/ ConcursoGravaApurados(p)
    \/ DistribuirTotal(p)
    \/ DistribuirUsuario(p)
    \/ DistribuirAtualiza(p)
    \/ DistribuirTransacao(p)
    \/ DistribuirRegistro(p)

\* the fetch of the batch finds the draw
TodosBuscaOk(p) == TodosBusca(p) /\ proc'[p].pc = "ac_jogos"

NextCron ==
    \/ \E p \in Trabalhadores, b \in DOMAIN boloes, c \in ConcursosPedido :
          ApurarConcursoIndividual(p, b, c)
    \/ \E p \in Trabalhadores : CronApurarResultados(p)
    \/ \E p \in Trabalhadores : CronProximo(p)
    \/ \E p \in Trabalhadores : BuscarResultadoCompleto(p)
    \/ \E p \in Trabalhadores : TodosInicio(p)
    \/ \E p \in Trabalhadores : TodosBusca(p)
    \/ \E p \in Trabalhadores : TodosFim(p)
    \/ \E p \in Trabalhadores : IndividualFim(p)
    \/ \E p \in Trabalhadores : ConcursoJogos(p)
    \/ \E p \in Trabalhadores : ConcursoResultado(p)
    \/ \E p \in Trabalhadores : ConcursoAcertos(p)
    \/ \E p \in Trabalhadores : ConcursoLeApurados(p)
    \/ \E p \in Trabalhadores : ConcursoGravaApurados(p)
    \/ \E p \in Trabalhadores : DistribuirTotal(p)
    \/ \E p \in Trabalhadores : DistribuirUsuario(p)
    \/ \E p \in Trabalhadores : DistribuirAtualiza(p)
    \/ \E p \in Trabalhadores : DistribuirTransacao(p)
    \/ \E p \in Trabalhadores : DistribuirRegistro(p)

SpecCron ==
    /\ InitCron
    /\ [][NextCron]_vars
    /\ WF_vars(\E p \in Trabalhadores : CronApurarResultados(p))
    /\ WF_vars(\E p \in Trabalhadores : PassoCron(p))
    /\ SF_vars(\E p \in Trabalhadores : TodosBuscaOk(p))

(***************************************************************************)
(* Vocabulary of the properties.                                           *)
(***************************************************************************)
Quieto == \A p \in Trabalhadores : proc[p].pc = "ocioso"

JogoIds == {jogos_bolao[i].id : i \in 1..Len(jogos_bolao)}

\* the contests of a pool that have a resultados_concurso row
ConcursosComResultado(b) ==
    {c \in ConcursosPedido : ResultadosDe(b, c) # <<>>}

\* the buyers of a pool
Compradores(b) == {cotas[i].usuario_id : i \in {k \in 1..Len(cotas) : cotas[k].bolao_id = b}}

\* the elements of a sequence
Elems(s) == {s[i] : i \in 1..Len(s)}

\* the response e ends a batch run (apurar_todos_concursos) on pool b
ChamadaDeLote(e, b) ==
    /\ e.bolao = b
    /\ e.ret = "ok"
    /\ \/ e.op \in {"pendentes", "cron"}
       \/ e.op = "automatico" /\ is_teimosinha(boloes[b])

\* the steps of calcular_e_distribuir_premio between the first credit and
\* the insert of the prize row
PassosDistribuicao == {"dp_usuario", "dp_atualiza", "dp_transacao", "dp_registro"}

\* the response e is a request that stopped while distributing the prize of
\* contest c of pool b, with some buyers credited and others not
FalhaNaDistribuicao(e, b, c) ==
    /\ e.ret = "falha"
    /\ e.bolao = b
    /\ e.concurso = c
    /\ e.em \in PassosDistribuicao
    /\ e.creditados # {}
    /\ e.creditados # Compradores(b)
    /\ ~e.registrado

\* the response e reports a completed apuration of contest c of pool b
ApuracaoCompleta(e, b, c) ==
    /\ e.bolao = b
    /\ e.ret = "ok"
    /\ c \in Elems(e.novos)

\* the hit rows of a contest of a pool
AcertosDoConcurso(b, c) ==
    SelectSeq(acertos_concurso,
              LAMBDA a : a.bolao_id = b /\ a.concurso_numero = c)

\* contest c of pool b was scored and no ticket reached 11 hits
SemAcertosPremiados(b, c) ==
    /\ AcertosDoConcurso(b, c) # <<>>
    /\ \A a \in Elems(AcertosDoConcurso(b, c)) : a.acertos < 11

Abs(x) == IF x < 0 THEN -x ELSE x

\* k is an integer nearest to n / d
MaisProximo(k, n, d) == 2 * Abs(k * d - n) <= d

\* round(n / d): the nearest integer, the even one of two equally near
ArredondaPar(n, d) ==
    CHOOSE k \in 0..(n \div d + 1) :
        MaisProximo(k, n, d) /\ (2 * Abs(k * d - n) = d => k % 2 = 0)

\* the share count of a buyer of a pool: over the buyer's purchases, the sum
\* of max(1, round(valor_pago / valor_cota))
ComprasDe(b, u) ==
    SelectSeq(cotas, LAMBDA c : c.bolao_id = b /\ c.usuario_id = u)

Partes(b, u) ==
    SomaSeq([i \in 1..Len(ComprasDe(b, u)) |->
                Max(1, ArredondaPar(ComprasDe(b, u)[i].valor_pago,
                                    boloes[b].valor_cota))])

TotalPartes(b) ==
    SomaSeq([i \in 1..Len(CotasDe(b)) |->
                Max(1, ArredondaPar(CotasDe(b)[i].valor_pago,
                                    boloes[b].valor_cota))])

\* what a run has credited to a buyer, and to all buyers
PagoNaRodada(rec, u) ==
    SomaSeq([i \in 1..Len(rec.pagos) |->
                IF rec.pagos[i].usuario_id = u THEN rec.pagos[i].valor ELSE 0])

TotalPago(rec) == SomaSeq([i \in 1..Len(rec.pagos) |-> rec.pagos[i].valor])

\* a series pool: the contests of its range, and those with a result row
Serie(b) == boloes[b].concurso_fim # NULO
            /\ boloes[b].concurso_fim > boloes[b].concurso_numero

Faixa(b) == boloes[b].concurso_numero..boloes[b].concurso_fim

Apurados(b) == {c \in Faixa(b) : ResultadosDe(b, c) # <<>>}

\* the last response, and the state a batch run on pool b leaves as it
\* returns: nothing has run since
Ultima == chamadas[Len(chamadas)]

RetornoDeLote(b) ==
    /\ chamadas # <<>>
    /\ ChamadaDeLote(Ultima, b)
    /\ \A p \in Trabalhadores : proc[p].pc \in {"ocioso", "cron_laco"}

\* how many entries of a sequence equal x
Vezes(s, x) == Cardinality({i \in 1..Len(s) : s[i] = x})

\* the response e answers a single-contest apuration of contest c of pool b:
\* the per-contest endpoint, or the single-shot endpoints on a pool of one
\* contest
ChamadaDeConcurso(e, b, c) ==
    /\ e.bolao = b
    /\ \/ e.op = "individual" /\ e.concurso = c
       \/ /\ e.op \in {"manual", "automatico"}
          /\ ~is_teimosinha(boloes[b])
          /\ boloes[b].concurso_numero = c

(***************************************************************************)
(* C1: for every pool and contest, over any sequence of single-contest     *)
(* apuration calls only the first one apurates: every later call is        *)
(* rejected with a conflict (or ends as upstream-unavailable when the      *)
(* lottery API is asked first), there is at most one resultados_concurso   *)
(* row per (pool, contest), at most one acertos_concurso row per (pool,    *)
(* contest, ticket), and no wallet is credited twice for (pool, contest).  *)
(***************************************************************************)
C1_ApuraUmaVez ==
    \A b \in DOMAIN boloes, c \in ConcursosPedido :
        /\ Len(ResultadosDe(b, c)) <= 1
        /\ \A j \in JogoIds : Len(AcertosDe(b, c, j)) <= 1
        /\ \A u \in Usuarios : Len(CreditosDe(u, b, c)) <= 1
        /\ \A i, k \in 1..Len(chamadas) :
              ( /\ i < k
                /\ ChamadaDeConcurso(chamadas[i], b, c)
                /\ ChamadaDeConcurso(chamadas[k], b, c)
                /\ chamadas[i].ret = "ok" )
              => chamadas[k].ret \in {"conflito", "indisponivel"}

(***************************************************************************)
(* C2: under every interleaving of two batch runs on one pool, or of a     *)
(* batch run with a per-contest apuration on that pool, each contest is    *)
(* scored at most once: no second resultados_concurso row, no duplicate    *)
(* acertos_concurso rows, each buyer credited at most once per contest,    *)
(* and concursos_apurados incremented exactly once per contest (when no    *)
(* request is running the counter is the number of contests scored).       *)
(***************************************************************************)
C2_ConcorrenciaSegura ==
    \A b \in DOMAIN boloes :
        /\ \A c \in ConcursosPedido :
              /\ Len(ResultadosDe(b, c)) <= 1
              /\ \A j \in JogoIds : Len(AcertosDe(b, c, j)) <= 1
              /\ \A u \in Usuarios : Len(CreditosDe(u, b, c)) <= 1
        /\ Quieto => boloes[b].concursos_apurados
                        = Cardinality(ConcursosComResultado(b))

(***************************************************************************)
(* C3: in every reachable state, requests that stop at any step and batch  *)
(* runs repeated afterwards included, each buyer has at most one           *)
(* premio_bolao credit per (pool, contest): at most one increase of the    *)
(* balance and at most one ledger transaction.                             *)
(***************************************************************************)
C3_CreditoUnico ==
    \A b \in DOMAIN boloes, c \in ConcursosPedido, u \in Usuarios :
        /\ Len(CreditosDe(u, b, c)) <= 1
        /\ Len(TransacoesDe(u, b, c)) <= 1

(***************************************************************************)
(* C4: when a run stopped in the middle of the distribution of contest c   *)
(* (result row written, some buyers credited and others not, no prize row) *)
(* the contest remains retryable: once a batch run on that pool has        *)
(* completed afterwards, a batch run after the stop has taken c as pending *)
(* (it apurated c, or skipped it for want of the draw).                    *)
(***************************************************************************)
C4_Retentavel ==
    \A b \in DOMAIN boloes, c \in ConcursosPedido :
        \A i \in 1..Len(chamadas) :
            ( /\ FalhaNaDistribuicao(chamadas[i], b, c)
              /\ \E k \in (i + 1)..Len(chamadas) : ChamadaDeLote(chamadas[k], b) )
            => \E k \in (i + 1)..Len(chamadas) :
                  /\ ChamadaDeLote(chamadas[k], b)
                  /\ c \in Elems(chamadas[k].novos) \cup Elems(chamadas[k].erros)

(***************************************************************************)
(* C5: after any completed apuration of a contest (single-shot, per        *)
(* contest or batch; with or without a payout table) exactly one           *)
(* premiacoes_bolao row exists for that (pool, contest), also when the     *)
(* prize is zero, and a row with a zero prize is marked distribuido.       *)
(***************************************************************************)
C5_UmaPremiacao ==
    \A b \in DOMAIN boloes, c \in ConcursosPedido :
        (\E i \in 1..Len(chamadas) : ApuracaoCompleta(chamadas[i], b, c))
        => /\ Len(PremiacoesDe(b, c)) = 1
           /\ \A r \in Elems(PremiacoesDe(b, c)) :
                 r.premio_total = 0 => r.distribuido

(***************************************************************************)
(* C6: when a contest is apurated in which no ticket scores 11 or more     *)
(* hits, a prize row with premio_total 0 and distribuido = true is         *)
(* written, the response reports a prize of 0, no wallet balance is        *)
(* changed and no ledger transaction is appended.                          *)
(***************************************************************************)
C6_PremioZero ==
    \A b \in DOMAIN boloes, c \in ConcursosPedido :
        \A i \in 1..Len(chamadas) :
            (ApuracaoCompleta(chamadas[i], b, c) /\ SemAcertosPremiados(b, c))
            => /\ \E r \in Elems(PremiacoesDe(b, c)) :
                     r.premio_total = 0 /\ r.distribuido
               /\ chamadas[i].premio = 0
               /\ \A u \in Usuarios :
                     CreditosDe(u, b, c) = <<>> /\ TransacoesDe(u, b, c) = <<>>

(***************************************************************************)
(* C7: for a pool with unit price u > 0 and a positive prize P, where the  *)
(* share count s of a buyer is the sum over the buyer's purchases of       *)
(* max(1, round(valor_pago / u)), the distribution credits every buyer     *)
(* P * s / sum(s) rounded to the cent (an exact half cent may go to either *)
(* neighbour), the balance grows by exactly that credit, and the sum of    *)
(* the credits of a run differs from P by at most n cents, n the number    *)
(* of buyers.                                                              *)
(***************************************************************************)
C7_RateioProporcional ==
    \A p \in Trabalhadores :
        LET rec == proc[p]
            b == rec.bolao
        IN  /\ rec.pc = "dp_transacao" =>
                  LET u == Head(rec.fila).usuario_id
                      v == rec.pagos[Len(rec.pagos)].valor
                  IN  /\ carteira[u] = rec.saldoAnt + v
                      /\ MaisProximo(v, rec.premio * Partes(b, u), TotalPartes(b))
            /\ rec.pc = "dp_registro" =>
                  /\ \A u \in Compradores(b) \cap DOMAIN carteira :
                        MaisProximo(PagoNaRodada(rec, u),
                                    rec.premio * Partes(b, u), TotalPartes(b))
                  /\ Abs(TotalPago(rec) - rec.premio)
                        <= Cardinality(Compradores(b))

\* a run has credited every buyer and the credits do not add up to the prize
C7_Rateado ==
    \E p \in Trabalhadores :
        /\ proc[p].pc = "dp_registro"
        /\ proc[p].premio > 0
        /\ boloes[proc[p].bolao].valor_cota > 0
        /\ Len(proc[p].pagos) = Cardinality(Compradores(proc[p].bolao))
        /\ Len(proc[p].pagos) >= 2
        /\ TotalPago(proc[p]) # proc[p].premio

(***************************************************************************)
(* C8: for a series pool of N contests, after any sequence of apurations:  *)
(* once result rows exist for all N contests the pool is apurado and       *)
(* concursos_apurados = N; while fewer than N contests have been apurated  *)
(* the status keeps the value it had before (no step changes the status    *)
(* unless it makes the pool apurado with all N result rows present).       *)
(***************************************************************************)
C8_SerieCompleta ==
    /\ [](Quieto =>
            \A b \in DOMAIN boloes :
                (Serie(b) /\ Apurados(b) = Faixa(b))
                => /\ boloes[b].status = "apurado"
                   /\ boloes[b].concursos_apurados = Cardinality(Faixa(b)))
    /\ [][\A b \in DOMAIN boloes :
              (Serie(b) /\ boloes'[b].status # boloes[b].status)
              => /\ boloes'[b].status = "apurado"
                 /\ Apurados(b)' = Faixa(b)]_vars

\* a series pool with every contest apurated, nothing running
C8_SerieApurada ==
    /\ Quieto
    /\ \E b \in DOMAIN boloes :
          /\ Serie(b)
          /\ Apurados(b) = Faixa(b)
          /\ Cardinality(Faixa(b)) >= 2
          /\ boloes[b].status = "apurado"
          /\ \E i \in 1..Len(chamadas) :
                chamadas[i].bolao = b /\ chamadas[i].op = "individual"
                /\ chamadas[i].ret = "ok"

C10_CronConclui ==
    \A b \in BolaoIds :
        (boloes[b].status \in {"aberto", "fechado"} /\ JogosDe(b) # <<>>)
        ~> ( /\ boloes[b].status = "apurado"
             /\ \A c \in Elems(concursos_list(boloes[b])) :
                   ResultadosDe(b, c) # <<>> )

(***************************************************************************)
(* C11: over any sequence of admin update, admin close, cron close,        *)
(* purchase auto-close and apuration operations the status of a pool only  *)
(* moves aberto -> fechado -> apurado: a pool that is apurado stays        *)
(* apurado, a pool that is fechado does not return to aberto, and a pool   *)
(* that is cancelado never changes status again.                           *)
(***************************************************************************)
Ordem(st) == IF st = "aberto" THEN 1 ELSE IF st = "fechado" THEN 2 ELSE 3

C11_StatusSoAvanca ==
    [][\A b \in DOMAIN boloes :
          /\ boloes[b].status = "cancelado" => boloes'[b].status = "cancelado"
          /\ boloes[b].status = "apurado" => boloes'[b].status = "apurado"
          /\ boloes[b].status \in {"aberto", "fechado"}
                => \/ boloes'[b].status = "cancelado"
                   \/ /\ boloes'[b].status \in {"aberto", "fechado", "apurado"}
                      /\ Ordem(boloes'[b].status) >= Ordem(boloes[b].status)]_vars

\* the responses of the admin operations on a pool row
OpsAdmin == {"atualizar", "fechar", "comprar"}

\* the fields of a pool row that are frozen once it is apurado
Congelados(row) ==
    <<row.concurso_numero, row.concurso_fim, row.valor_cota>>

TransacoesDoUsuario(u) == SelectSeq(transacoes, LAMBDA t : t.usuario_id = u)

CreditosDoUsuario(u) == SelectSeq(creditos, LAMBDA t : t.usuario_id = u)

LancamentosDeCredito(u) ==
    SelectSeq(transacoes,
              LAMBDA t : t.usuario_id = u /\ t.origem \in {"premio_bolao", "pix"})

\* the steps that insert the ledger row of a credit
PassosDeLancamento == {"dp_transacao", "pg_transacao"}

(***************************************************************************)
(* C13: every change of a wallet's saldo_disponivel made by the prize      *)
(* distribution or by a payment confirmation is followed by the insert of  *)
(* exactly one ledger row whose saldo_anterior is the balance before the   *)
(* change and whose saldo_posterior is the balance written; with the       *)
(* credits completed one after the other, every wallet update has its      *)
(* ledger row and the balance of a user equals the saldo_posterior of the  *)
(* user's most recent ledger row.                                          *)
(***************************************************************************)
C13_RazaoPareada ==
    /\ [](Quieto =>
            \A u \in Usuarios :
                /\ Len(CreditosDoUsuario(u)) = Len(LancamentosDeCredito(u))
                /\ \A i \in 1..Len(CreditosDoUsuario(u)) :
                      CreditosDoUsuario(u)[i].valor
                         = LancamentosDeCredito(u)[i].valor
                /\ TransacoesDoUsuario(u) # <<>>
                      => carteira[u] =
                            TransacoesDoUsuario(u)[Len(TransacoesDoUsuario(u))]
                               .saldo_posterior)
    /\ [][\A u \in Usuarios :
              (carteira'[u] # carteira[u] /\ transacoes' = transacoes)
              => \E p \in Trabalhadores :
                    /\ proc'[p].pc \in PassosDeLancamento
                    /\ Head(proc'[p].fila).usuario_id = u
                    /\ proc'[p].saldoAnt = carteira[u]
                    /\ carteira'[u] = proc'[p].saldoAnt + proc'[p].premioUsr]_vars
    /\ [][\A p \in Trabalhadores :
              (proc[p].pc \in PassosDeLancamento /\ proc'[p] # proc[p])
              => /\ Len(transacoes') = Len(transacoes) + 1
                 /\ LET t == transacoes'[Len(transacoes')]
                        u == Head(proc[p].fila).usuario_id
                    IN  /\ t.usuario_id = u
                        /\ t.valor = proc[p].premioUsr
                        /\ t.saldo_anterior = proc[p].saldoAnt
                        /\ t.saldo_posterior = carteira[u]
                        /\ t.saldo_posterior = t.saldo_anterior + t.valor]_vars

\* a user credited by a payment and then by a prize, all completed
C13_DoisCreditos ==
    /\ Quieto
    /\ \E u \in Usuarios :
          /\ Len(LancamentosDeCredito(u)) >= 2
          /\ LancamentosDeCredito(u)[1].origem = "pix"
          /\ LancamentosDeCredito(u)[2].origem = "premio_bolao"
          /\ carteira[u] = LancamentosDeCredito(u)[2].saldo_posterior

\* the balances the wallet of a user has held in a behaviour that starts
\* from SaldoInicialPar
SaldosTidos(u) ==
    {SaldoInicialPar[u]}
    \cup {CreditosDoUsuario(u)[i].saldo : i \in 1..Len(CreditosDoUsuario(u))}

TotalCreditado(u) ==
    SomaSeq([i \in 1..Len(CreditosDoUsuario(u)) |-> CreditosDoUsuario(u)[i].valor])

(***************************************************************************)
(* C14: two different pools apurated in parallel share no state: under     *)
(* every interleaving of the two distributions, once both have ended the   *)
(* balance of every user is the initial balance plus all the credits made  *)
(* to the user, and the saldo_anterior and saldo_posterior of every ledger *)
(* row are balances the wallet has held.                                   *)
(***************************************************************************)
C14_BoloesIndependentes ==
    /\ Quieto => \A u \in Usuarios :
                    carteira[u] = SaldoInicialPar[u] + TotalCreditado(u)
    /\ \A i \in 1..Len(transacoes) :
          /\ transacoes[i].saldo_anterior \in SaldosTidos(transacoes[i].usuario_id)
          /\ transacoes[i].saldo_posterior \in SaldosTidos(transacoes[i].usuario_id)

\* the response e reports a completed single-shot apuration (apurar_bolao)
\* of pool b
ApuracaoUnica(e, b) ==
    /\ e.bolao = b
    /\ e.op \in {"manual", "automatico"}
    /\ e.ret = "ok"
    /\ e.novos # <<>>

(***************************************************************************)
(* C15: after a non-series pool is apurated by the single-shot operation   *)
(* (apurar_bolao) with the drawn numbers D, the pool row has               *)
(* resultado_dezenas = D and status apurado, and every later result query  *)
(* for the pool returns D rather than not-yet-apurated.                    *)
(***************************************************************************)
C15_ResultadoGravado ==
    \A b \in DOMAIN boloes :
        \A i \in 1..Len(chamadas) :
            (~Serie(b) /\ ApuracaoUnica(chamadas[i], b))
            => LET D == ResultadosDe(b, boloes[b].concurso_numero)[1].dezenas
               IN  /\ boloes[b].status = "apurado"
                   /\ boloes[b].resultado_dezenas = D
                   /\ \A k \in (i + 1)..Len(chamadas) :
                         (chamadas[k].op = "ver" /\ chamadas[k].bolao = b)
                         => /\ chamadas[k].ret = "ok"
                            /\ chamadas[k].dezenas = D

\* the apuration operations an admin may ask for on a pool
OpsApuracao == {"manual", "automatico", "individual", "pendentes"}

\* the answer the claim gives to an apuration asked on an apurado pool
RespostaApurado(op) == IF op = "pendentes" THEN "ja_apurado" ELSE "conflito"

(***************************************************************************)
(* C16: on a pool whose status is apurado the batch form                   *)
(* (apurar/pendentes) answers success with zero new results and every      *)
(* single-contest form is rejected as already apurated; no handler starts  *)
(* on the pool, and the step writes no result row, hit row, prize row,     *)
(* wallet balance, ledger transaction or pool field.                       *)
(***************************************************************************)
C16_ApuradoRecusa ==
    [][pedidos' # pedidos =>
          /\ \A p \in Trabalhadores :
                (proc'[p] # proc[p] /\ proc'[p].op \in OpsApuracao)
                => boloes[proc'[p].bolao].status # "apurado"
          /\ chamadas' # chamadas =>
                LET e == chamadas'[Len(chamadas')]
                IN  (e.op \in OpsApuracao /\ boloes[e.bolao].status = "apurado")
                    => /\ e.ret = RespostaApurado(e.op)
                       /\ e.novos = <<>>
                       /\ e.erros = <<>>
                       /\ tabelas' = tabelas]_vars

\* after an apuration that wrote results, the batch form and a single-contest
\* form have both been asked for on the apurado pool and answered
C16_TodasRecusadas ==
    \E b \in DOMAIN boloes :
        /\ boloes[b].status = "apurado"
        /\ \A op \in {"individual", "pendentes"} :
              \E i \in 1..Len(chamadas) :
                 /\ chamadas[i].op = op
                 /\ chamadas[i].bolao = b
                 /\ chamadas[i].ret = RespostaApurado(op)
                 /\ \E k \in 1..(i - 1) :
                       chamadas[k].bolao = b /\ chamadas[k].ret = "ok"
                       /\ chamadas[k].novos # <<>>

\* contest_range(pool): the contests a pool covers
NaFaixa(bolao, c) ==
    IF is_teimosinha(bolao)
    THEN c \in bolao.concurso_numero..bolao.concurso_fim
    ELSE c = bolao.concurso_numero

\* the operations that name the contest they apurate
OpsDeConcurso == {"manual", "individual"}

(***************************************************************************)
(* C17: a single-contest apuration that names a contest outside the range  *)
(* of the pool (for a pool of one contest: another than its own), asked on *)
(* a pool that is not apurado and has tickets, is answered invalid         *)
(* argument and the step writes nothing; no handler starts for a contest   *)
(* outside the range.                                                      *)
(***************************************************************************)
C17_ForaDaFaixa ==
    [][pedidos' # pedidos =>
          /\ \A p \in Trabalhadores :
                (proc'[p] # proc[p] /\ proc'[p].op = "individual")
                => NaFaixa(boloes[proc'[p].bolao], proc'[p].concurso)
          /\ chamadas' # chamadas =>
                LET e == chamadas'[Len(chamadas')]
                IN  (/\ e.op \in OpsDeConcurso
                     /\ e.concurso # 0
                     /\ boloes[e.bolao].status # "apurado"
                     /\ JogosDe(e.bolao) # <<>>
                     /\ ~NaFaixa(boloes[e.bolao], e.concurso))
                    => /\ e.ret = "invalido"
                       /\ tabelas' = tabelas]_vars

\* what an apuration writes for a pool: its result, hit and prize rows and
\* the fields of its row
EscritoDoBolao(b) ==
    <<SelectSeq(resultados_concurso, LAMBDA r : r.bolao_id = b),
      SelectSeq(acertos_concurso, LAMBDA r : r.bolao_id = b),
      SelectSeq(premiacoes_bolao, LAMBDA r : r.bolao_id = b),
      boloes[b]>>

(***************************************************************************)
(* C18: while a pool has no tickets, every apuration operation asked on it *)
(* (manual, automatico, individual, pendentes) is answered invalid         *)
(* argument, never success, and no step of an apuration writes a result    *)
(* row, a hit row, a prize row, the counter or the status of the pool.     *)
(***************************************************************************)
C18_SemJogosRecusa ==
    [][\A b \in DOMAIN boloes :
          JogosDe(b) = <<>> =>
             /\ chamadas' # chamadas =>
                   LET e == chamadas'[Len(chamadas')]
                   IN  (e.bolao = b /\ e.op \in OpsApuracao)
                       => e.ret = "invalido"
             /\ EscritoDoBolao(b)' = EscritoDoBolao(b)]_vars

\* the response of a whole sweep, as against the entry of one of its pools
FimDeVarredura(e) == e.op = "cron" /\ e.bolao = "nenhum"

\* the entries of the pools of sweeps: the batch of the pool returned or raised
EntregueAoLote(b) ==
    \E i \in 1..Len(chamadas) : chamadas[i].op = "cron" /\ chamadas[i].bolao = b

(***************************************************************************)
(* C19: in the cron sweep an exception raised while one pool is apurated   *)
(* is recorded for that pool and the sweep goes on: the pools still to be  *)
(* visited are kept, the next one that has a ticket is handed to           *)
(* apurar_pendentes, the sweep answers only when no pool is left, and when *)
(* it answers every pool with a ticket that was aberto or fechado has been *)
(* handed to apurar_pendentes.                                             *)
(***************************************************************************)
C19_VarreduraContinua ==
    /\ [](\A i \in 1..Len(chamadas) :
             FimDeVarredura(chamadas[i]) =>
                /\ chamadas[i].ret = "ok"
                /\ \A b \in DOMAIN boloes :
                      JogosDe(b) # <<>> => EntregueAoLote(b))
    /\ [][\A p \in Trabalhadores :
             (proc[p].op = "cron" /\ proc'[p] # proc[p]) =>
                /\ (chamadas' # chamadas
                    /\ chamadas'[Len(chamadas')].ret = "erro")
                   => /\ chamadas'[Len(chamadas')].bolao = proc[p].bolao
                      /\ proc'[p].pc = "cron_laco"
                      /\ proc'[p].lista = proc[p].lista
                /\ proc'[p].lista # proc[p].lista
                   => /\ proc[p].pc = "cron_laco"
                      /\ proc'[p].lista = Tail(proc[p].lista)
                      /\ JogosDe(Head(proc[p].lista)) # <<>>
                         => /\ proc'[p].pc = "tc_inicio"
                            /\ proc'[p].bolao = Head(proc[p].lista)
                /\ proc'[p].pc = "ocioso" => proc[p].lista = <<>>]_vars

\* the batch of the first pool raised and the sweep went on to apurate the
\* second pool and to answer
C19_ErroEContinuou ==
    \E i, k, n \in 1..Len(chamadas) :
        /\ i < k /\ k < n
        /\ chamadas[i].op = "cron" /\ chamadas[i].bolao = "b1"
        /\ chamadas[i].ret = "erro"
        /\ chamadas[k].op = "cron" /\ chamadas[k].bolao = "b2"
        /\ chamadas[k].ret = "ok" /\ chamadas[k].novos # <<>>
        /\ FimDeVarredura(chamadas[n])

\* the numbers of 1..25 that occur in both lists
EmAmbas(jogo, resultado) ==
    {n \in 1..MaiorDezena :
        /\ \E i \in DOMAIN jogo : jogo[i] = n
        /\ \E k \in DOMAIN resultado : resultado[k] = n}

\* a list of 15 distinct numbers of 1..25
ListaValida(lista) ==
    /\ Len(lista) = TamanhoJogo
    /\ \A i \in DOMAIN lista : lista[i] \in 1..MaiorDezena
    /\ \A i, k \in DOMAIN lista : i # k => lista[i] # lista[k]

(***************************************************************************)
(* C20: for a ticket T and a draw D, each 15 distinct numbers of 1..25,    *)
(* calcular_acertos(T, D) is the number of numbers common to T and D and   *)
(* lies in 0..15; a score computed for one order of the two lists is the   *)
(* score of every other order of them.                                     *)
(***************************************************************************)
C20_AcertosIntersecao ==
    (/\ ListaValida(placar.jogo_dezenas)
     /\ ListaValida(placar.resultado_dezenas))
    => /\ CalcularAcertosListas(placar.jogo_dezenas, placar.resultado_dezenas)
             = Cardinality(EmAmbas(placar.jogo_dezenas,
                                   placar.resultado_dezenas))
       /\ placar.acertos # SEM_ACERTOS
          => /\ placar.acertos \in 0..TamanhoJogo
             /\ placar.acertos =
                   Cardinality(EmAmbas(placar.jogo_dezenas,
                                       placar.resultado_dezenas))

\* a score that is neither 15 nor the least possible was computed, and the
\* order of the lists was changed afterwards
C20_CalculadoEReordenado ==
    /\ ListaValida(placar.jogo_dezenas)
    /\ ListaValida(placar.resultado_dezenas)
    /\ placar.acertos \in 6..14
    /\ placar.trocas > placar.trocasNoCalculo
    /\ placar.jogo_dezenas # placar.resultado_dezenas

\* the pool row has an end contest beyond its start
TemFimAdiante(bolao) ==
    bolao.concurso_fim # NULO /\ bolao.concurso_fim > bolao.concurso_numero

\* lista is the ascending run ini..fim, every contest once
Ascendente(lista, ini, fim) ==
    /\ Len(lista) = fim - ini + 1
    /\ lista[1] = ini
    /\ lista[Len(lista)] = fim
    /\ \A i \in 1..(Len(lista) - 1) : lista[i + 1] = lista[i] + 1

(***************************************************************************)
(* C21: for a pool with start contest s and optional end contest e,        *)
(* is_teimosinha is true exactly when e is set and e > s; concursos_list   *)
(* is the ascending sequence s..e when the pool is a series and <<s>>      *)
(* otherwise; total_concursos is e - s + 1 for a series and 1 otherwise,   *)
(* the length of concursos_list.                                           *)
(***************************************************************************)
C21_IntervaloDoBolao ==
    \A b \in DOMAIN boloes :
       LET bolao == boloes[b]
           ini == bolao.concurso_numero
           fim == bolao.concurso_fim
       IN  /\ consulta.is_teimosinha.feita
              => consulta.is_teimosinha.valor = TemFimAdiante(bolao)
           /\ consulta.concursos_list.feita
              => IF TemFimAdiante(bolao)
                 THEN Ascendente(consulta.concursos_list.valor, ini, fim)
                 ELSE consulta.concursos_list.valor = <<ini>>
           /\ consulta.total_concursos.feita
              => consulta.total_concursos.valor
                    = (IF TemFimAdiante(bolao) THEN fim - ini + 1 ELSE 1)
           /\ (consulta.total_concursos.feita /\ consulta.concursos_list.feita)
              => consulta.total_concursos.valor
                    = Len(consulta.concursos_list.valor)

\* the three functions have answered for a series of three or more contests
C21_SerieConsultada ==
    /\ consulta.is_teimosinha.feita
    /\ consulta.is_teimosinha.valor
    /\ consulta.total_concursos.feita
    /\ consulta.total_concursos.valor >= 3
    /\ consulta.concursos_list.feita
    /\ Len(consulta.concursos_list.valor) >= 3

\* the handlers that run apurar_todos_concursos
OpsDeLote == {"pendentes", "automatico", "cron"}

\* a sequence of contest numbers in strictly ascending order
Crescente(s) == \A i, k \in 1..Len(s) : i < k => s[i] < s[k]

\* worker p is inside a batch run (apurar_todos_concursos)
EmLote(p) ==
    /\ proc[p].op \in OpsDeLote
    /\ proc[p].pc \notin {"ocioso", "cron_laco", "auto_busca"}
    /\ proc[p].via # "ab"

(***************************************************************************)
(* C22: within one batch run the pending contests are apurated one at a    *)
(* time in strictly ascending order of contest number: the contests the    *)
(* run has apurated are ascending, a result row it inserts is of a contest *)
(* beyond all of them, and the contests it still holds come after.  Over   *)
(* requests that run one after the other, concursos_apurados never         *)
(* decreases and a pool that is apurado stays apurado.                     *)
(***************************************************************************)
C22_OrdemCrescente ==
    /\ [](\A p \in Trabalhadores :
             EmLote(p) =>
                /\ Crescente(proc[p].novos)
                /\ Crescente(proc[p].pend)
                /\ \A i \in 1..Len(proc[p].novos), k \in 1..Len(proc[p].pend) :
                      proc[p].novos[i] < proc[p].pend[k])
    /\ [](\A i \in 1..Len(chamadas) : Crescente(chamadas[i].novos))
    /\ [][/\ \A p \in Trabalhadores :
                (EmLote(p) /\ resultados_concurso' # resultados_concurso)
                => LET r == resultados_concurso'[Len(resultados_concurso')]
                   IN  /\ Len(resultados_concurso')
                             = Len(resultados_concurso) + 1
                       /\ r.concurso_numero = proc[p].concurso
                       /\ \A i \in 1..Len(proc[p].novos) :
                             proc[p].novos[i] < r.concurso_numero
                       /\ \A k \in 1..Len(proc[p].pend) :
                             r.concurso_numero < proc[p].pend[k]
          /\ \A b \in DOMAIN boloes :
                /\ boloes'[b].concursos_apurados >= boloes[b].concursos_apurados
                /\ boloes[b].status = "apurado"
                   => boloes'[b].status = "apurado"]_vars

\* a batch run has apurated two contests or more and the pool is apurado
C22_LoteDeVarios ==
    \E i \in 1..Len(chamadas) :
        /\ chamadas[i].op \in OpsDeLote
        /\ Len(chamadas[i].novos) >= 2
        /\ boloes[chamadas[i].bolao].status = "apurado"
        /\ boloes[chamadas[i].bolao].concursos_apurados >= 2

\* the steps of apurar_concurso after the insert of the result row: the hit
\* rows, the counter and the distribution
PassosDePontuacao ==
    {"ac_acertos", "ac_le_apurados", "ac_grava_apurados", "dp_total",
     "dp_usuario", "dp_atualiza", "dp_transacao", "dp_registro"}

TabelasDePremio == {TabelaCompleta, TabelaSem11, TabelaSo11}

JogosDoPremio ==
    {<<Jogo("j1", "b1", DezJ1), Jogo("j2", "b1", DezJ2)>>,
     <<Jogo("j1", "b1", DezJ1), Jogo("j2", "b1", DezJ2),
       Jogo("j3", "b1", DezJ3), Jogo("j4", "b1", DezJ1)>>}

InitPremio ==
    /\ Vazio
    /\ boloes = [b \in {"b1"} |-> Bolao(NULO, "fechado", 1000)]
    /\ jogos_bolao \in JogosDoPremio
    /\ cotas \in {<<>>, <<Cota("b1", "ana", 2000), Cota("b1", "bia", 1000)>>}
    /\ carteira = [u \in Usuarios |-> IF u = "ana" THEN 500 ELSE 0]
    /\ unico = TRUE
    /\ \E dez \in {DezA, DezB, DezC}, t \in TabelasDePremio :
          proc = [p \in {"w1"} |->
                    [Ocioso EXCEPT !.pc = "ac_jogos", !.op = "individual",
                                   !.bolao = "b1",
                                   !.concurso = ConcursoInicial,
                                   !.via = "ac", !.total = 1,
                                   !.dezenas = dez, !.temPrem = TRUE,
                                   !.prem = t]]
    /\ limite = 0
    /\ ciclico = FALSE

NextPremio ==
    \E p \in Trabalhadores :
        \/ ConcursoJogos(p)
        \/ ConcursoResultado(p)
        \/ ConcursoAcertos(p)
        \/ ConcursoLeApurados(p)
        \/ ConcursoGravaApurados(p)
        \/ DistribuirTotal(p)
        \/ DistribuirUsuario(p)
        \/ DistribuirAtualiza(p)
        \/ DistribuirTransacao(p)
        \/ DistribuirRegistro(p)
        \/ IndividualFim(p)

SpecPremio == InitPremio /\ [][NextPremio]_vars

\* the scored tickets of a contest with a hits
JogosNaFaixa(b, c, a) ==
    Cardinality({i \in 1..Len(acertos_concurso) :
                    /\ acertos_concurso[i].bolao_id = b
                    /\ acertos_concurso[i].concurso_numero = c
                    /\ acertos_concurso[i].acertos = a})

\* tier by tier: the tickets of the tier times its payout, nothing for a
\* tier the table does not carry
PremioEsperado(premiacoes, b, c) ==
    SomaSeq([k \in 1..5 |->
                IF (k + 10) \in DOMAIN premiacoes
                THEN JogosNaFaixa(b, c, k + 10) * premiacoes[k + 10] ELSE 0])

PassosDeRateio == {"dp_usuario", "dp_atualiza", "dp_transacao", "dp_registro"}

(***************************************************************************)
(* C24: the premio_total of a contest is the sum, over the scored tickets  *)
(* with 11 hits or more, of the payout of the ticket's tier, a tier the    *)
(* table lacks counting as zero: every ticket of a tier adds the payout of *)
(* the tier and a ticket below 11 hits adds nothing.  It is the amount the *)
(* distribution shares out, writes to the prize row and returns.           *)
(***************************************************************************)
C24_PremioTotal ==
    /\ [](\A p \in Trabalhadores :
             proc[p].pc \in PassosDeRateio
             => proc[p].premio = PremioEsperado(proc[p].prem, proc[p].bolao,
                                                proc[p].concurso))
    /\ [][\A p \in Trabalhadores :
             (proc[p].pc \in {"dp_total", "dp_registro"}
              /\ proc'[p] # proc[p])
             => LET e == PremioEsperado(proc[p].prem, proc[p].bolao,
                                        proc[p].concurso)
                    r == premiacoes_bolao'[Len(premiacoes_bolao')]
                IN  /\ premiacoes_bolao' # premiacoes_bolao
                       => /\ r.premio_total = e
                          /\ proc'[p].premioRet = e
                    /\ proc'[p].pc = "dp_usuario" => proc'[p].premio = e]_vars

\* two tickets with 15 hits, one with 11 hits and a table without that tier,
\* one with 5 hits: the prize is twice the payout of 15 hits
C24_DoisNaMesmaFaixa ==
    \E p \in Trabalhadores :
        /\ proc[p].pc = "dp_usuario"
        /\ JogosNaFaixa(proc[p].bolao, proc[p].concurso, 15) = 2
        /\ JogosNaFaixa(proc[p].bolao, proc[p].concurso, 11) = 1
        /\ 11 \notin DOMAIN proc[p].prem
        /\ \E a \in 0..10 : JogosNaFaixa(proc[p].bolao, proc[p].concurso, a) = 1
        /\ proc[p].premio = 2 * proc[p].prem[15]

(***************************************************************************)
(* The share-out over buyers of whom one may have no carteira row: three   *)
(* buyers in every order of purchase, an individual apuration whose        *)
(* lottery answer has arrived.                                             *)
(***************************************************************************)
SaldoInicial(u) == IF u = "ana" THEN 500 ELSE 0

CotasDosTres ==
    {<<Cota("b1", u1, IF u1 = "ana" THEN 2000 ELSE 1000),
       Cota("b1", u2, IF u2 = "ana" THEN 2000 ELSE 1000),
       Cota("b1", u3, IF u3 = "ana" THEN 2000 ELSE 1000)>> :
        <<u1, u2, u3>> \in {t \in Usuarios \X Usuarios \X Usuarios :
                               {t[1], t[2], t[3]} = Usuarios}}

InitCarteira ==
    /\ Vazio
    /\ boloes = [b \in {"b1"} |-> Bolao(NULO, "fechado", 1000)]
    /\ jogos_bolao = <<Jogo("j1", "b1", DezJ1), Jogo("j2", "b1", DezJ2)>>
    /\ cotas \in CotasDosTres
    /\ \E com \in {Usuarios} \cup {Usuarios \ {u} : u \in Usuarios} :
          carteira = [u \in com |-> SaldoInicial(u)]
    /\ unico = TRUE
    /\ \E dez \in {DezA, DezB}, t \in {TabelaCompleta, TabelaSo11} :
          proc = [p \in {"w1"} |->
                    [Ocioso EXCEPT !.pc = "ac_jogos", !.op = "individual",
                                   !.bolao = "b1",
                                   !.concurso = ConcursoInicial,
                                   !.via = "ac", !.total = 1,
                                   !.dezenas = dez, !.temPrem = TRUE,
                                   !.prem = t]]
    /\ limite = 0
    /\ ciclico = FALSE

SpecCarteira == InitCarteira /\ [][NextPremio]_vars

\* the shares each buyer of a pool holds, from the cotas rows
CotasDoComprador(b, u) ==
    SomaSeq([i \in 1..Len(CotasDe(b)) |->
                IF CotasDe(b)[i].usuario_id = u
                THEN QtdCotas(CotasDe(b)[i].valor_pago, boloes[b].valor_cota)
                ELSE 0])
CotasDeTodos(b) ==
    SomaSeq([i \in 1..Len(CotasDe(b)) |->
                QtdCotas(CotasDe(b)[i].valor_pago, boloes[b].valor_cota)])

\* the runs of the distribution that shared out a positive prize
RateiosFeitos ==
    {i \in 1..Len(premiacoes_bolao) :
        premiacoes_bolao[i].distribuido /\ premiacoes_bolao[i].premio_total > 0}

SemCarteira(u) == u \notin DOMAIN carteira

(***************************************************************************)
(* C25: in the distribution of a positive prize a buyer without a carteira *)
(* row is skipped, with no balance written and no ledger row for that      *)
(* buyer, and every other buyer with a positive share is credited the      *)
(* proportional amount in the same run, wherever the buyer without wallet  *)
(* comes in the order of the loop.                                         *)
(***************************************************************************)
C25_SemCarteiraPulado ==
    /\ [](\A u \in Usuarios :
             SemCarteira(u)
             => \A i \in 1..Len(transacoes) : transacoes[i].usuario_id # u)
    /\ [](\A i \in RateiosFeitos :
             LET r == premiacoes_bolao[i]
                 b == r.bolao_id
                 c == r.concurso_numero
             IN  \A u \in Compradores(b) :
                    LET partes == PremioUsuario(CotasDoComprador(b, u),
                                                CotasDeTodos(b), r.premio_total)
                        trs == TransacoesDe(u, b, c)
                    IN  (~SemCarteira(u) /\ \A v \in partes : v > 0)
                        => /\ Len(trs) = 1
                           /\ trs[1].valor \in partes
                           /\ trs[1].saldo_anterior = SaldoInicial(u)
                           /\ carteira[u] = SaldoInicial(u) + trs[1].valor)
    /\ [][DOMAIN carteira' = DOMAIN carteira]_vars

\* a run is over in which the first or a middle buyer of the loop had no
\* wallet and a later one was credited
C25_PuladoEOutrosPagos ==
    /\ RateiosFeitos # {}
    /\ \E i, k \in 1..Len(cotas) :
          /\ i < k
          /\ SemCarteira(cotas[i].usuario_id)
          /\ TransacoesDe(cotas[k].usuario_id, "b1", ConcursoInicial) # <<>>
          /\ carteira[cotas[k].usuario_id]
                > SaldoInicial(cotas[k].usuario_id)

\* no request is being served
TodosOciosos == \A p \in Trabalhadores : proc[p].pc = "ocioso"

(***************************************************************************)
(* C26: between apuration requests that run one after the other (single    *)
(* shot, manual per contest, API per contest, batch), concursos_apurados   *)
(* of every pool is the number of distinct contests that have a row of the *)
(* pool in resultados_concurso.                                            *)
(***************************************************************************)
C26_ContadorIgualResultados ==
    TodosOciosos
    => \A b \in DOMAIN boloes :
          boloes[b].concursos_apurados = Cardinality(ConcursosComResultado(b))

(***************************************************************************)
(* C27: a pool of one contest that is apurado has resultado_dezenas set    *)
(* and exactly one resultados_concurso row for its contest, whichever      *)
(* entry point apurated it (manual, automatic, batch, cron).               *)
(***************************************************************************)
C27_ApuradoTemResultado ==
    TodosOciosos
    => \A b \in DOMAIN boloes :
          (~is_teimosinha(boloes[b]) /\ boloes[b].status = "apurado")
          => /\ boloes[b].resultado_dezenas # {}
             /\ Len(ResultadosDe(b, boloes[b].concurso_numero)) = 1

(***************************************************************************)
(* C28: every contest that has a result row is settled in the end: once    *)
(* the result row of (pool, contest) is written, a prize row of (pool,     *)
(* contest) comes to exist, also when the payout table was not there when  *)
(* the contest was scored, a later run making up for it.                   *)
(***************************************************************************)
C28_ResultadoAcabaPremiado ==
    \A b \in BolaoIds, c \in ConcursosPedido :
        (ResultadosDe(b, c) # <<>>) ~> (PremiacoesDe(b, c) # <<>>)

(***************************************************************************)
(* Tickets added to and removed from a series between the apurations of    *)
(* its contests.                                                           *)
(***************************************************************************)
InitBilhetes ==
    /\ Vazio
    /\ boloes = [b \in {"b1"} |-> Bolao(ConcursoFim, "aberto", 1000)]
    /\ jogos_bolao = <<Jogo("j1", "b1", DezJ1), Jogo("j2", "b1", DezJ2)>>
    /\ cotas \in {<<>>, <<Cota("b1", "ana", 2000), Cota("b1", "bia", 1000)>>}
    /\ carteira = [u \in Usuarios |-> IF u = "ana" THEN 500 ELSE 0]
    /\ unico = TRUE
    /\ proc = [p \in {"w1"} |-> Ocioso]
    /\ limite = MaxPedidosBilhetes
    /\ ciclico = FALSE

NextBilhetes ==
    \/ \E p \in Trabalhadores, b \in DOMAIN boloes :
          AdicionarJogos(p, b, <<Jogo("j3", b, DezJ3)>>)
    \/ \E p \in Trabalhadores, b \in DOMAIN boloes : RemoverJogo(p, b, "j1")
    \/ \E p \in Trabalhadores, b \in DOMAIN boloes, c \in ConcursosPedido :
          ApurarConcursoIndividual(p, b, c)
    \/ \E p \in Trabalhadores : BuscarResultadoCompleto(p)
    \/ \E p \in Trabalhadores : IndividualFim(p)
    \/ \E p \in Trabalhadores : ConcursoJogos(p)
    \/ \E p \in Trabalhadores : ConcursoResultado(p)
    \/ \E p \in Trabalhadores : ConcursoAcertos(p)
    \/ \E p \in Trabalhadores : ConcursoLeApurados(p)
    \/ \E p \in Trabalhadores : ConcursoGravaApurados(p)
    \/ \E p \in Trabalhadores : DistribuirTotal(p)
    \/ \E p \in Trabalhadores : DistribuirUsuario(p)
    \/ \E p \in Trabalhadores : DistribuirAtualiza(p)
    \/ \E p \in Trabalhadores : DistribuirTransacao(p)
    \/ \E p \in Trabalhadores : DistribuirRegistro(p)

SpecBilhetes == InitBilhetes /\ [][NextBilhetes]_vars

(***************************************************************************)
(* C29: for a series, between the requests that add or remove tickets and  *)
(* apurate contests, every contest that has a result row has exactly one   *)
(* hit row for every ticket now in the pool and no hit row for a ticket    *)
(* that is not in the pool.                                                *)
(***************************************************************************)
C29_UmAcertoPorJogo ==
    TodosOciosos
    => \A b \in DOMAIN boloes : \A c \in ConcursosComResultado(b) :
          /\ \A k \in 1..Len(JogosDe(b)) :
                Len(AcertosDe(b, c, JogosDe(b)[k].id)) = 1
          /\ \A i \in 1..Len(acertos_concurso) :
                (acertos_concurso[i].bolao_id = b
                 /\ acertos_concurso[i].concurso_numero = c)
                => \E k \in 1..Len(JogosDe(b)) :
                      JogosDe(b)[k].id = acertos_concurso[i].jogo_id

(***************************************************************************)
(* C30: when a contest yields a positive premio_total and the pool has no  *)
(* cotas, the distribution changes no wallet and appends no ledger row,    *)
(* and the prize row it writes has distribuido = false; a prize row with   *)
(* distribuido = true and a positive premio_total exists only if the pool  *)
(* had a cota when the distribution ran.                                   *)
(***************************************************************************)
C30_SemCotasNaoDistribui ==
    /\ [][\A p \in Trabalhadores :
             (/\ proc[p].pc = "dp_total"
              /\ proc'[p] # proc[p]
              /\ CotasDe(proc[p].bolao) = <<>>
              /\ PremioEsperado(proc[p].prem, proc[p].bolao,
                                proc[p].concurso) > 0)
             => /\ carteira' = carteira
                /\ transacoes' = transacoes
                /\ proc'[p].pc \notin PassosDeRateio
                /\ premiacoes_bolao' =
                      Append(premiacoes_bolao,
                             [bolao_id |-> proc[p].bolao,
                              concurso_numero |-> proc[p].concurso,
                              premio_total |->
                                 PremioEsperado(proc[p].prem, proc[p].bolao,
                                                proc[p].concurso),
                              distribuido |-> FALSE])]_vars
    /\ [](\A b \in DOMAIN boloes :
             CotasDe(b) = <<>>
             => /\ \A i \in 1..Len(transacoes) :
                      transacoes[i].referencia_id # b
                /\ \A u \in DOMAIN carteira : carteira[u] = SaldoInicial(u))
    /\ [](\A i \in RateiosFeitos :
             CotasDe(premiacoes_bolao[i].bolao_id) # <<>>)

\* a finished run whose positive prize found no buyer
C30_PremioSemCompradores ==
    /\ TodosOciosos
    /\ cotas = <<>>
    /\ \E i \in 1..Len(premiacoes_bolao) :
          /\ premiacoes_bolao[i].premio_total > 0
          /\ ~premiacoes_bolao[i].distribuido
====
